---- MODULE Spec2Model ----
(***************************************************************************)
(* Backtesting engine and strategy ledger of the stock-analysis toolkit:   *)
(* BacktestEngine.run_backtest (src/src/backtesting/engine.py) replaying a *)
(* data frame through a StrategyBase (src/src/backtesting/                 *)
(* strategy_base.py).                                                      *)
(*                                                                         *)
(* Three specifications share the variables:                               *)
(*   Spec      one run_backtest call, replaying any frame through a         *)
(*             strategy of which nothing is assumed;                        *)
(*   SpecRuns  a caller making several public calls (run_backtest with date *)
(*             arguments, reset, execute_signal, run_multiple_backtests) on *)
(*             one engine and one deterministic strategy object;            *)
(*   SpecCalc  the round-trip matching (src/src/utils/metrics.py,           *)
(*             engine.py) and the entry rule of FibonacciMACDStrategy       *)
(*             (src/src/strategies/fibonacci_macd_strategy.py) as functions *)
(*             applied to drawn inputs.                                     *)
(*                                                                         *)
(* Numbers.  Python floats are modelled as exact integers and rationals.   *)
(* Money and rates are integers in units of 1/SCALE: a price of 1.00 is    *)
(* SCALE, the slippage rate 0.0005 is 5, the commission 0.001 is 10.  A    *)
(* weighted-average entry price is a rational [num, den].                  *)
(***************************************************************************)
EXTENDS Integers, Sequences, FiniteSets, TLC

VARIABLES
    engine_args,        \* the arguments BacktestEngine(...) was constructed with
    engine,             \* BacktestEngine fields: initial_capital, commission, slippage
    results,            \* BacktestEngine.results: strategy name -> stored result
    frame,              \* the caller's data frame (rows in frame order)
    strategy,           \* the strategy object: what generate_signals returns
    plan,               \* the calls the caller has still to make
    call,               \* the public call in progress (or the latest one)
    history,            \* what the caller saw when each of its calls came back
    multi,              \* run_multiple_backtests locals: loop position, results
    data,               \* run_backtest local: the frame, after the date filter
    pc,                 \* position inside run_backtest
    dates,              \* run_backtest local: sorted unique index values
    i,                  \* run_backtest local: 1-based index of the loop over dates
    historical_data,    \* run_backtest local: last slice given to generate_signals
    current_prices,     \* run_backtest local: symbol -> close at current_date
    signal,             \* the Signal object held by the loop over the list (NoSignal outside it)
    nsignals,           \* number of Signal objects the list has yielded in this run
    pending,            \* the rest of the list generate_signals returned
    cash,               \* StrategyBase.cash
    positions,          \* StrategyBase.positions: symbol -> Position
    trades,             \* StrategyBase.trades
    portfolio_history,  \* StrategyBase.portfolio_history
    outcome,            \* how run_backtest ended: "none", "returned", or the exception
    last,               \* history: the inputs and the ledger before the latest step
    calc                \* a metrics or strategy-rule function, its input and its value

vars == <<engine_args, engine, results, frame, strategy, plan, call, history, multi,
          data, pc, dates, i, historical_data, current_prices, signal, nsignals,
          pending, cash, positions, trades, portfolio_history, outcome, last, calc>>

\* what a step of run_backtest never writes
caller == <<engine_args, frame, strategy, plan, call, history, multi, calc>>

ledger == <<cash, positions, trades>>

-----------------------------------------------------------------------------
(* Bounds of the model *)

MaxRows == 2        \* rows of the data frame
MaxSignals == 2     \* Signal objects returned by the strategy during one run
MaxSize == 2        \* magnitude of what calculate_position_size returns
MaxLog == 3         \* trades of a trade log handed to the trade statistics
MaxSeries == 3      \* values of a portfolio value series handed to the drawdown

SCALE == 100 * 100  \* fixed-point unit of money and rates

Times == {1, 2}
Symbols == {"X", "Y"}
Prices == {1 * SCALE, 2 * SCALE}
Sizes == (0 - MaxSize)..MaxSize

\* Constructor arguments tried; 0 stands for a falsy argument (None or 0).
EngineArgs ==
    { [initial_capital |-> 4 * SCALE, commission |-> 0, slippage |-> 0],
      [initial_capital |-> 3 * SCALE, commission |-> 500, slippage |-> 100] }

-----------------------------------------------------------------------------
(* src/src/config.py: TradingConfig defaults *)

config_initial_capital == 100000 * SCALE
config_commission == 10
config_slippage == 5

-----------------------------------------------------------------------------
(* Arithmetic helpers *)

Abs(x) == IF x < 0 THEN 0 - x ELSE x
Min(a, b) == IF a <= b THEN a ELSE b

RECURSIVE GCD(_, _)
GCD(a, b) == IF b = 0 THEN a ELSE GCD(b, a % b)

\* the rational n/d (d > 0) in lowest terms
Rat(n, d) == LET g == GCD(Abs(n), d) IN [num |-> n \div g, den |-> d \div g]

\* the mapping with no key (an empty dict)
EmptyMap == [x \in {} |-> 0]

RECURSIVE SortedSeq(_)
SortedSeq(S) ==
    IF S = {} THEN <<>>
    ELSE LET m == CHOOSE x \in S : \A y \in S : x <= y
         IN <<m>> \o SortedSeq(S \ {m})

-----------------------------------------------------------------------------
(* Data frames *)

\* The bars of the market-data table the frames are drawn from: two symbols
\* share timestamp 1, one symbol has a bar at timestamp 2.
Rows == { [timestamp |-> 1, symbol |-> "X", close |-> 1 * SCALE],
          [timestamp |-> 1, symbol |-> "Y", close |-> 2 * SCALE],
          [timestamp |-> 2, symbol |-> "X", close |-> 2 * SCALE] }

DataFrames == UNION { [1..n -> Rows] : n \in 0..MaxRows }

IndexOf(d) == { d[k].timestamp : k \in 1..Len(d) }

-----------------------------------------------------------------------------
(* BacktestEngine.__init__ and its helpers *)

\* engine.py 25-27: "argument or config default" (a falsy argument, 0 included,
\* selects the default)
BacktestEngineInit(args) ==
    [ initial_capital |-> IF args.initial_capital # 0 THEN args.initial_capital
                          ELSE config_initial_capital,
      commission      |-> IF args.commission # 0 THEN args.commission
                          ELSE config_commission,
      slippage        |-> IF args.slippage # 0 THEN args.slippage
                          ELSE config_slippage ]

\* engine.py 67: sorted(data.index.unique())
UniqueDates(d) == SortedSeq(IndexOf(d))

\* a slice that is the whole frame (no point-in-time cut)
HistoricalSliceWholeFrame(d, current_date) == d

\* engine.py 74: data[data.index <= current_date]
HistoricalSlice(d, current_date) ==
    SelectSeq(d, LAMBDA row : row.timestamp <= current_date)

\* engine.py 77-86: closes of the rows at current_date, by symbol (a later row of
\* the same symbol overwrites an earlier one)
RECURSIVE PricesOf(_)
PricesOf(rows) ==
    IF rows = <<>> THEN EmptyMap
    ELSE LET r    == rows[Len(rows)]
             rest == PricesOf(SubSeq(rows, 1, Len(rows) - 1))
         IN [s \in (DOMAIN rest) \cup {r.symbol} |->
                IF s = r.symbol THEN r.close ELSE rest[s]]

CurrentPrices(d, current_date) ==
    PricesOf(SelectSeq(d, LAMBDA row : row.timestamp = current_date))

\* a loop that executes every returned signal
SignalIsAlwaysCurrent(sig, current_date) == TRUE

\* engine.py 94: the test that selects the signals to execute
SignalIsCurrent(sig, current_date) == sig.timestamp = current_date

\* a loop that hands the reference price to the ledger
ApplySlippageNever(price, signal_type, slippage) == price

\* engine.py 188-194: price * (1 + slippage), price * (1 - slippage), written as
\* price +- price * slippage (the quotient is exact for the prices of the model,
\* which are multiples of SCALE)
ApplySlippage(price, signal_type, slippage) ==
    IF signal_type = "BUY" THEN price + (price * slippage) \div SCALE
    ELSE IF signal_type = "SELL" THEN price - (price * slippage) \div SCALE
    ELSE price

\* a handler that leaves the loop ("break") instead of continuing it
AfterExceptionBreak(idx, ndates) == ndates + 1

\* engine.py 102-104: the handler of the per-timestamp try block ends the
\* iteration with "continue"; the loop index after it
AfterException(idx, ndates) == idx + 1

-----------------------------------------------------------------------------
(* StrategyBase: the ledger.  A ledger value is [cash, positions, trades];   *)
(* positions is a function whose domain is the set of open symbols.         *)

\* a cost that forgets the commission
BuyCostNoCommission(position_size, price, commission) == position_size * price

\* strategy_base.py 135
BuyCost(position_size, price, commission) == position_size * price + commission

\* a funding test that only asks for some cash to be left
CanAffordAnyCash(cost, available) == available > 0

\* no funding test at all
CanAffordAlways(cost, available) == TRUE

\* strategy_base.py 137
CanAfford(cost, available) == cost <= available

\* an entry price overwritten by the price of the latest buy
AvgPriceLatest(quantity, entry_price, position_size, price) == Rat(price, 1)

\* strategy_base.py 141-143: weighted-average entry price of the grown position
AvgPrice(quantity, entry_price, position_size, price) ==
    Rat(quantity * entry_price.num + position_size * price * entry_price.den,
        entry_price.den * (quantity + position_size))

\* a sell of the requested size, not capped by the quantity held
SellQuantityUncapped(position_size, quantity) == Abs(position_size)

\* strategy_base.py 173-174
SellQuantity(position_size, quantity) == Min(Abs(position_size), quantity)

\* strategy_base.py 177
SellProceeds(sell_quantity, price, commission) == sell_quantity * price - commission

\* strategy_base.py 195: the test that removes a position after a sell
FullySold(quantity) == quantity <= 0

Without(f, s) == [x \in (DOMAIN f) \ {s} |-> f[x]]
With(f, s, v) == [x \in (DOMAIN f) \cup {s} |-> IF x = s THEN v ELSE f[x]]

\* strategy_base.py 130-167
ExecuteBuy(st, sig, commission, position_size) ==
    IF position_size > 0
    THEN LET cost == BuyCost(position_size, sig.price, commission) IN
         IF CanAfford(cost, st.cash)
         THEN LET pos ==
                    IF sig.symbol \in DOMAIN st.positions
                    THEN LET existing_pos == st.positions[sig.symbol] IN
                         [existing_pos EXCEPT
                            !.quantity = existing_pos.quantity + position_size,
                            !.entry_price = AvgPrice(existing_pos.quantity,
                                                     existing_pos.entry_price,
                                                     position_size, sig.price)]
                    ELSE [symbol |-> sig.symbol,
                          quantity |-> position_size,
                          entry_price |-> Rat(sig.price, 1),
                          entry_date |-> sig.timestamp,
                          current_price |-> sig.price,
                          unrealized_pnl |-> Rat(0, 1)]
              IN [cash |-> st.cash - cost,
                  positions |-> With(st.positions, sig.symbol, pos),
                  trades |-> Append(st.trades,
                                [timestamp |-> sig.timestamp,
                                 symbol |-> sig.symbol,
                                 action |-> "BUY",
                                 quantity |-> position_size,
                                 price |-> sig.price,
                                 commission |-> commission,
                                 total_cost |-> cost])]
         ELSE st
    ELSE st

\* strategy_base.py 169-196, for a symbol with an open position
ExecuteSell(st, sig, commission, position_size) ==
    LET position == st.positions[sig.symbol]
        sell_quantity == SellQuantity(position_size, position.quantity)
    IN IF sell_quantity > 0
       THEN LET proceeds == SellProceeds(sell_quantity, sig.price, commission)
                left == position.quantity - sell_quantity
            IN [cash |-> st.cash + proceeds,
                positions |->
                    IF FullySold(left) THEN Without(st.positions, sig.symbol)
                    ELSE With(st.positions, sig.symbol,
                              [position EXCEPT !.quantity = left]),
                trades |-> Append(st.trades,
                              [timestamp |-> sig.timestamp,
                               symbol |-> sig.symbol,
                               action |-> "SELL",
                               quantity |-> sell_quantity,
                               price |-> sig.price,
                               commission |-> commission,
                               proceeds |-> proceeds])]
       ELSE st

\* strategy_base.py 130-132, 171-174: whether executing sig reaches the call of
\* calculate_position_size
CallsPositionSize(st, sig) ==
    \/ sig.signal_type = "BUY"
    \/ sig.signal_type = "SELL" /\ sig.symbol \in DOMAIN st.positions

\* strategy_base.py 117-128
ExecuteSignal(st, sig, commission, position_size) ==
    IF sig.signal_type = "BUY" THEN ExecuteBuy(st, sig, commission, position_size)
    ELSE IF sig.signal_type = "SELL" /\ sig.symbol \in DOMAIN st.positions
         THEN ExecuteSell(st, sig, commission, position_size)
         ELSE st

\* an update that leaves every position at the price it had
UpdatePositionsStale(pos, prices) == pos

\* strategy_base.py 41-44, 105-109
UpdatePositions(pos, prices) ==
    [s \in DOMAIN pos |->
        IF s \in DOMAIN prices
        THEN [pos[s] EXCEPT
                !.current_price = prices[s],
                !.unrealized_pnl =
                    Rat((prices[s] * pos[s].entry_price.den - pos[s].entry_price.num)
                            * pos[s].quantity,
                        pos[s].entry_price.den)]
        ELSE pos[s]]

RECURSIVE SumValue(_, _)
SumValue(pos, S) ==
    IF S = {} THEN 0
    ELSE LET s == CHOOSE x \in S : TRUE
         IN pos[s].quantity * pos[s].current_price + SumValue(pos, S \ {s})

\* strategy_base.py 111-115, on the positions after update_positions
PortfolioValue(c, pos) == c + SumValue(pos, DOMAIN pos)

\* strategy_base.py 218-224
Snapshot(timestamp, c, pos) ==
    LET portfolio_value == PortfolioValue(c, pos) IN
    [timestamp |-> timestamp,
     cash |-> c,
     positions_value |-> portfolio_value - c,
     total_value |-> portfolio_value,
     num_positions |-> Cardinality(DOMAIN pos)]

-----------------------------------------------------------------------------
(* Signals a strategy may return, and what calculate_position_size may return *)

Signals == [timestamp : Times, symbol : Symbols,
            signal_type : {"BUY", "SELL", "HOLD"}, price : Prices]

NoSignal == [timestamp |-> 0, symbol |-> "", signal_type |-> "HOLD", price |-> 0]

Ledger == [cash |-> cash, positions |-> positions, trades |-> trades]

Step(op, sig, size) == [op |-> op, signal |-> sig, position_size |-> size]

\* StrategyBase.name of the strategy object (strategy_base.py 55)
StrategyName == strategy.name

\* A strategy of which nothing is assumed: generate_signals may return any list
\* and calculate_position_size any size, or either may raise.
AnyStrategy == [kind |-> "any", name |-> "S"]

\* One element of a returned list: the Signal, what calculate_position_size
\* returns for it, and whether calculate_position_size raises for it.
Entry(sig, size, raises) == [signal |-> sig, size |-> size, raises |-> raises]

\* The public calls (0 stands for a date argument that is None)
\* (strategies is the list given to run_multiple_backtests when it holds
\* distinct strategy objects; <<>> when it holds the caller's one object n times)
NoCall ==
    [op |-> "none", start_date |-> 0, end_date |-> 0, n |-> 0, strategies |-> <<>>]
RunBacktestCall(s, e) ==
    [op |-> "run_backtest", start_date |-> s, end_date |-> e, n |-> 0,
     strategies |-> <<>>]
ResetCall ==
    [op |-> "reset", start_date |-> 0, end_date |-> 0, n |-> 0, strategies |-> <<>>]
RunMultipleCall(n, s, e) ==
    [op |-> "run_multiple_backtests", start_date |-> s, end_date |-> e, n |-> n,
     strategies |-> <<>>]
RunMultipleOf(list, s, e) ==
    [op |-> "run_multiple_backtests", start_date |-> s, end_date |-> e,
     n |-> Len(list), strategies |-> list]

ExecuteSignalCall ==
    [op |-> "execute_signal", start_date |-> 0, end_date |-> 0, n |-> 0,
     strategies |-> <<>>]

\* (runs: what each iteration of the loop assigned to results[strategy.name])
NoMulti == [k |-> 0, results |-> EmptyMap, runs |-> <<>>]

\* the value None
None == [none |-> TRUE]
NoCalc == [kind |-> "none", input |-> <<>>, out |-> EmptyMap]

-----------------------------------------------------------------------------
(* Round trips: TradeAnalyzer._calculate_round_trip_pnl (src/src/utils/      *)
(* metrics.py 278-336) and BacktestEngine._calculate_trade_statistics        *)
(* (engine.py 261-336).  A trade log is a sequence of trade records; an open *)
(* lot is [quantity, price, timestamp]; positions maps a symbol to its list  *)
(* of open lots.                                                             *)

\* the sum of the pnl column of a list of records
RECURSIVE SumPnl(_)
SumPnl(records) == IF records = <<>> THEN 0 ELSE Head(records).pnl + SumPnl(Tail(records))

RemoveAt(seq, k) == SubSeq(seq, 1, k - 1) \o SubSeq(seq, k + 1, Len(seq))

\* metrics.py 289-293: the lot a BUY opens
Lot(trade) ==
    [quantity |-> trade.quantity, price |-> trade.price, timestamp |-> trade.timestamp]

LotsOf(pos, symbol) == IF symbol \in DOMAIN pos THEN pos[symbol] ELSE <<>>

\* a matching that takes the newest lot
NewestLot(lots) == Len(lots)

\* metrics.py 299, 317: positions[symbol][0] and pop(0), the lot matched next
FirstLot(lots) == 1

\* metrics.py 302-331: the record of one matched piece
RoundTrip(trade, buy_trade, quantity) ==
    [symbol         |-> trade.symbol,
     pnl            |-> (trade.price - buy_trade.price) * quantity,
     return_pct     |-> Rat(trade.price - buy_trade.price, buy_trade.price),
     holding_period |-> trade.timestamp - buy_trade.timestamp,
     entry_price    |-> buy_trade.price,
     exit_price     |-> trade.price,
     quantity       |-> quantity]

\* metrics.py 296-334: the while loop of one SELL
RECURSIVE MatchLots(_, _, _, _)
MatchLots(lots, remaining_quantity, trade, pnl_trades) ==
    IF ~(remaining_quantity > 0 /\ lots # <<>>)
    THEN [lots |-> lots, pnl_trades |-> pnl_trades]
    ELSE LET k         == FirstLot(lots)
             buy_trade == lots[k]
         IN IF buy_trade.quantity <= remaining_quantity
            THEN MatchLots(RemoveAt(lots, k),
                           remaining_quantity - buy_trade.quantity, trade,
                           Append(pnl_trades,
                                  RoundTrip(trade, buy_trade, buy_trade.quantity)))
            ELSE MatchLots([lots EXCEPT ![k].quantity = @ - remaining_quantity],
                           0, trade,
                           Append(pnl_trades,
                                  RoundTrip(trade, buy_trade, remaining_quantity)))

\* metrics.py 283-334: the loop over the log, from its k-th trade on
RECURSIVE RoundTripLoop(_, _, _, _)
RoundTripLoop(log, k, pos, pnl_trades) ==
    IF k > Len(log) THEN [pnl_trades |-> pnl_trades, positions |-> pos]
    ELSE LET trade == log[k]
         IN IF trade.action = "BUY"
            THEN RoundTripLoop(log, k + 1,
                     With(pos, trade.symbol,
                          Append(LotsOf(pos, trade.symbol), Lot(trade))),
                     pnl_trades)
            ELSE IF trade.action = "SELL" /\ trade.symbol \in DOMAIN pos
            THEN LET m == MatchLots(pos[trade.symbol], trade.quantity, trade, pnl_trades)
                 IN RoundTripLoop(log, k + 1, With(pos, trade.symbol, m.lots),
                                  m.pnl_trades)
            ELSE RoundTripLoop(log, k + 1, pos, pnl_trades)

\* metrics.py 278-336: the records returned, with the lots left open at the end
RoundTripPnl(log) == RoundTripLoop(log, 1, EmptyMap, <<>>)

\* a record that books the whole lot also when only a part of it is sold
CompletedTradeWholeLot(trade, buy_trade, quantity) ==
    [symbol         |-> trade.symbol,
     pnl            |-> (trade.price - buy_trade.price) * buy_trade.quantity,
     return_pct     |-> Rat(trade.price - buy_trade.price, buy_trade.price),
     holding_period |-> trade.timestamp - buy_trade.timestamp]

\* engine.py 293-312: the record of one matched piece
CompletedTrade(trade, buy_trade, quantity) ==
    [symbol         |-> trade.symbol,
     pnl            |-> (trade.price - buy_trade.price) * quantity,
     return_pct     |-> Rat(trade.price - buy_trade.price, buy_trade.price),
     holding_period |-> trade.timestamp - buy_trade.timestamp]

\* engine.py 287-315: the while loop of one SELL
RECURSIVE CompleteLots(_, _, _, _)
CompleteLots(lots, remaining_quantity, trade, completed_trades) ==
    IF ~(remaining_quantity > 0 /\ lots # <<>>)
    THEN [lots |-> lots, completed_trades |-> completed_trades]
    ELSE LET buy_trade == lots[1]
         IN IF buy_trade.quantity <= remaining_quantity
            THEN CompleteLots(Tail(lots),
                              remaining_quantity - buy_trade.quantity, trade,
                              Append(completed_trades,
                                     CompletedTrade(trade, buy_trade, buy_trade.quantity)))
            ELSE CompleteLots([lots EXCEPT ![1].quantity = @ - remaining_quantity],
                              0, trade,
                              Append(completed_trades,
                                     CompletedTrade(trade, buy_trade, remaining_quantity)))

\* engine.py 274-315: the loop over the log, from its k-th trade on
RECURSIVE CompletedLoop(_, _, _, _)
CompletedLoop(log, k, pos, completed_trades) ==
    IF k > Len(log) THEN [completed_trades |-> completed_trades, positions |-> pos]
    ELSE LET trade == log[k]
         IN IF trade.action = "BUY"
            THEN CompletedLoop(log, k + 1,
                     With(pos, trade.symbol,
                          Append(LotsOf(pos, trade.symbol), Lot(trade))),
                     completed_trades)
            ELSE IF trade.action = "SELL" /\ trade.symbol \in DOMAIN pos
            THEN LET m == CompleteLots(pos[trade.symbol], trade.quantity, trade,
                                       completed_trades)
                 IN CompletedLoop(log, k + 1, With(pos, trade.symbol, m.lots),
                                  m.completed_trades)
            ELSE CompletedLoop(log, k + 1, pos, completed_trades)

\* float('inf'), and the finite ratio n/d, as values of one shape
Infinity == [inf |-> TRUE, num |-> 0, den |-> 1]
Finite(n, d) == [inf |-> FALSE, num |-> Rat(n, d).num, den |-> Rat(n, d).den]

\* engine.py 331: abs(winning sum / losing sum), inf without a losing sum
EngineProfitFactor(winning_trades, losing_trades) ==
    IF losing_trades # <<>> /\ SumPnl(losing_trades) # 0
    THEN Finite(Abs(SumPnl(winning_trades)), Abs(SumPnl(losing_trades)))
    ELSE Infinity

\* engine.py 261-336: the statistics returned ({} for an empty log), with the
\* matched pieces and the lots left open at the end of the loop
TradeStatistics(log) ==
    LET done      == CompletedLoop(log, 1, EmptyMap, <<>>)
        completed == done.completed_trades
        winning_trades == SelectSeq(completed, LAMBDA c : c.pnl > 0)
        losing_trades  == SelectSeq(completed, LAMBDA c : c.pnl < 0)
    IN [positions |-> IF log = <<>> THEN EmptyMap ELSE done.positions,
        completed_trades |-> IF log = <<>> THEN <<>> ELSE completed,
        stats |->
          IF log = <<>> THEN EmptyMap
          ELSE IF completed = <<>> THEN [total_trades |-> Len(log)]
          ELSE [total_trades     |-> Len(log),
                completed_trades |-> Len(completed),
                winning_trades   |-> Len(winning_trades),
                losing_trades    |-> Len(losing_trades),
                profit_factor    |-> EngineProfitFactor(winning_trades, losing_trades),
                total_pnl        |-> SumPnl(completed)]]

\* metrics.py 338-364: the loop of _calculate_consecutive_stats over the
\* win/loss sequence, from its k-th element on
RECURSIVE ConsecutiveLoop(_, _, _, _, _, _)
ConsecutiveLoop(win_loss, k, max_consecutive_wins, max_consecutive_losses, current_wins, current_losses) ==
    IF k > Len(win_loss)
    THEN [max_consecutive_wins   |-> max_consecutive_wins,
          max_consecutive_losses |-> max_consecutive_losses]
    ELSE IF win_loss[k]
    THEN ConsecutiveLoop(win_loss, k + 1,
             IF current_wins + 1 > max_consecutive_wins THEN current_wins + 1
             ELSE max_consecutive_wins,
             max_consecutive_losses, current_wins + 1, 0)
    ELSE ConsecutiveLoop(win_loss, k + 1, max_consecutive_wins,
             IF current_losses + 1 > max_consecutive_losses THEN current_losses + 1
             ELSE max_consecutive_losses,
             0, current_losses + 1)

\* metrics.py 338-364: _calculate_consecutive_stats; win_loss is pnl > 0
ConsecutiveStats(pnl_series) ==
    IF pnl_series = <<>>
    THEN [max_consecutive_wins |-> 0, max_consecutive_losses |-> 0]
    ELSE ConsecutiveLoop([k \in 1..Len(pnl_series) |-> pnl_series[k] > 0],
                         1, 0, 0, 0, 0)

\* a profit factor that is 0 when nothing was lost
ProfitFactorZeroWithoutLosses(gross_profit, gross_loss) ==
    IF gross_loss > 0 THEN Finite(gross_profit, gross_loss) ELSE Finite(0, 1)

\* metrics.py 245: gross_profit / gross_loss, inf without a gross loss
ProfitFactor(gross_profit, gross_loss) ==
    IF gross_loss > 0 THEN Finite(gross_profit, gross_loss) ELSE Infinity

\* metrics.py 205-276: calculate_trade_metrics ({} for an empty log)
TradeMetrics(log) ==
    LET pnl_trades     == RoundTripPnl(log).pnl_trades
        winning_trades == SelectSeq(pnl_trades, LAMBDA c : c.pnl > 0)
        losing_trades  == SelectSeq(pnl_trades, LAMBDA c : c.pnl < 0)
        gross_profit   == IF winning_trades # <<>> THEN SumPnl(winning_trades) ELSE 0
        gross_loss     == IF losing_trades # <<>> THEN Abs(SumPnl(losing_trades)) ELSE 0
        consecutive_stats ==
            ConsecutiveStats([k \in 1..Len(pnl_trades) |-> pnl_trades[k].pnl])
    IN IF log = <<>> THEN EmptyMap
       ELSE IF pnl_trades = <<>>
       THEN [total_trades |-> Len(log),
             buy_trades   |-> Len(SelectSeq(log, LAMBDA t : t.action = "BUY")),
             sell_trades  |-> Len(SelectSeq(log, LAMBDA t : t.action = "SELL"))]
       ELSE [total_trades      |-> Len(log),
             round_trip_trades |-> Len(pnl_trades),
             winning_trades    |-> Len(winning_trades),
             losing_trades     |-> Len(losing_trades),
             win_rate          |-> Rat(Len(winning_trades), Len(pnl_trades)),
             total_pnl         |-> SumPnl(pnl_trades),
             gross_profit      |-> gross_profit,
             gross_loss        |-> gross_loss,
             profit_factor     |-> ProfitFactor(gross_profit, gross_loss),
             max_consecutive_wins   |-> consecutive_stats.max_consecutive_wins,
             max_consecutive_losses |-> consecutive_stats.max_consecutive_losses]

\* The trades the logs are drawn from: X in three quantities at three prices,
\* Y in one; the k-th trade of a log is stamped k.
LogTrades ==
    [action : {"BUY", "SELL"}, symbol : {"X"}, quantity : {5, 10, 15},
     price : {100, 110, 120}]
    \cup [action : {"BUY", "SELL"}, symbol : {"Y"}, quantity : {10}, price : {110}]

Stamped(t, k) ==
    [action |-> t.action, symbol |-> t.symbol, quantity |-> t.quantity,
     price |-> t.price, timestamp |-> k]

\* the log that holds the trades f[1], ..., f[n] in this order
StampedLog(f) == [k \in 1..Len(f) |-> Stamped(f[k], k)]

-----------------------------------------------------------------------------
(* State after BacktestEngine(...) and StrategyBase.__init__ *)

\* engine.py 19-31, strategy_base.py 54-66: the objects after construction
Constructed(a) ==
    /\ engine_args = a
    /\ engine = BacktestEngineInit(a)
    /\ results = EmptyMap
    /\ multi = NoMulti
    /\ dates = <<>>
    /\ i = 0
    /\ historical_data = <<>>
    /\ current_prices = EmptyMap
    /\ signal = NoSignal
    /\ nsignals = 0
    /\ pending = <<>>
    /\ cash = 0
    /\ positions = EmptyMap
    /\ trades = <<>>
    /\ portfolio_history = <<>>
    /\ outcome = "none"
    /\ history = <<>>

\* One call run_backtest(strategy, data) on fresh objects, no date arguments
Init ==
    /\ \E a \in EngineArgs : Constructed(a)
    /\ frame \in DataFrames
    /\ data = frame
    /\ strategy = AnyStrategy
    /\ plan = <<>>
    /\ call = RunBacktestCall(0, 0)
    /\ calc = NoCalc
    /\ pc = "start"
    /\ last = Step("construct", NoSignal, 0)

-----------------------------------------------------------------------------
(* run_backtest, engine.py 33-126 *)

\* a run_backtest that initializes the strategy before it looks at the data
RunBacktestNoDataAfterInitialize ==
    /\ pc = "start"
    /\ data = <<>>
    /\ cash' = engine.initial_capital
    /\ positions' = EmptyMap
    /\ trades' = <<>>
    /\ portfolio_history' = <<>>
    /\ pc' = "finished"
    /\ outcome' = "ValueError"
    /\ last' = Step("nodata", NoSignal, 0)
    /\ UNCHANGED <<engine, results, data, dates, i, historical_data, current_prices,
                   signal, nsignals, pending>>
    /\ UNCHANGED caller

\* engine.py 60-61: no data, ValueError before the strategy is touched
RunBacktestNoData ==
    /\ pc = "start"
    /\ data = <<>>
    /\ pc' = "finished"
    /\ outcome' = "ValueError"
    /\ last' = Step("nodata", NoSignal, 0)
    /\ UNCHANGED <<engine, results, data, dates, i, historical_data, current_prices,
                   signal, nsignals, pending, cash, positions, trades,
                   portfolio_history>>
    /\ UNCHANGED caller

StrategyState ==
    [cash |-> cash, positions |-> positions, trades |-> trades,
     portfolio_history |-> portfolio_history]

\* an initialize that keeps the trade log of the object
InitializeKeepsTrades(st, initial_cash) ==
    [cash |-> initial_cash, positions |-> EmptyMap, trades |-> st.trades,
     portfolio_history |-> <<>>]

\* an initialize that adds the capital to the cash of the object
InitializeAddsCash(st, initial_cash) ==
    [cash |-> st.cash + initial_cash, positions |-> EmptyMap, trades |-> <<>>,
     portfolio_history |-> <<>>]

\* strategy_base.py 95-103: StrategyBase.initialize
Initialize(st, initial_cash) ==
    [cash |-> initial_cash, positions |-> EmptyMap, trades |-> <<>>,
     portfolio_history |-> <<>>]

\* What a scripted strategy returns for the slice ending at current_date: one
\* Signal per move whose symbol has a bar at current_date, priced at that bar's
\* close, in the order of the moves; a stale move is stamped with the bar before.
ScriptedSignals(play, slice, current_date) ==
    LET closes == CurrentPrices(slice, current_date)
        moves  == SelectSeq(play.moves, LAMBDA m : m.symbol \in DOMAIN closes)
    IN [k \in 1..Len(moves) |->
           Entry([timestamp   |-> IF moves[k].stale THEN current_date - 1
                                  ELSE current_date,
                  symbol      |-> moves[k].symbol,
                  signal_type |-> moves[k].signal_type,
                  price       |-> closes[moves[k].symbol]],
                 moves[k].size, moves[k].raises)]

\* engine.py 63-69: strategy.initialize (strategy_base.py 95-103) and the dates
RunBacktestInitialize ==
    /\ pc = "start"
    /\ data # <<>>
    /\ LET st == Initialize(StrategyState, engine.initial_capital)
       IN /\ cash' = st.cash
          /\ positions' = st.positions
          /\ trades' = st.trades
          /\ portfolio_history' = st.portfolio_history
    /\ dates' = UniqueDates(data)
    /\ i' = 1
    /\ nsignals' = 0
    /\ pending' = <<>>
    /\ pc' = "loop"
    /\ last' = Step("initialize", NoSignal, 0)
    /\ UNCHANGED <<engine, results, data, historical_data, current_prices,
                   signal, outcome>>
    /\ UNCHANGED caller

\* engine.py 72-90: the head of an iteration; generate_signals returns a list
GenerateSignals ==
    /\ pc = "loop"
    /\ i <= Len(dates)
    /\ IF strategy.kind = "any" THEN TRUE ELSE ~strategy.script[dates[i]].raises
    /\ historical_data' = HistoricalSlice(data, dates[i])
    /\ current_prices' = CurrentPrices(data, dates[i])
    /\ pending' = IF strategy.kind = "any" THEN <<>>
                  ELSE ScriptedSignals(strategy.script[dates[i]],
                                       HistoricalSlice(data, dates[i]), dates[i])
    /\ pc' = "signals"
    /\ last' = Step("generate", NoSignal, 0)
    /\ UNCHANGED <<engine, results, data, dates, i, signal, nsignals,
                   cash, positions, trades, portfolio_history, outcome>>
    /\ UNCHANGED caller

\* engine.py 72-90, 102-104: generate_signals raises
GenerateSignalsRaises ==
    /\ pc = "loop"
    /\ i <= Len(dates)
    /\ IF strategy.kind = "any" THEN TRUE ELSE strategy.script[dates[i]].raises
    /\ historical_data' = HistoricalSlice(data, dates[i])
    /\ current_prices' = CurrentPrices(data, dates[i])
    /\ i' = AfterException(i, Len(dates))
    /\ pc' = "loop"
    /\ last' = Step("generate_raised", NoSignal, 0)
    /\ UNCHANGED <<engine, results, data, dates, signal, nsignals, pending,
                   cash, positions, trades, portfolio_history, outcome>>
    /\ UNCHANGED caller

\* engine.py 93-100: one pass of the loop over the returned signals.  The list
\* of a strategy of which nothing is assumed is any list of at most MaxSignals
\* signals, and its next element is drawn here.
ProcessSignal ==
    /\ pc = "signals"
    /\ IF strategy.kind = "any" THEN nsignals < MaxSignals ELSE pending # <<>>
    /\ \E sig \in (IF strategy.kind = "any" THEN Signals ELSE {Head(pending).signal}) :
        IF SignalIsCurrent(sig, dates[i])
        THEN LET adjusted == [sig EXCEPT !.price =
                    ApplySlippage(sig.price, sig.signal_type, engine.slippage)]
             IN \E size \in (IF ~CallsPositionSize(Ledger, adjusted) THEN {0}
                             ELSE IF strategy.kind = "any" THEN Sizes
                             ELSE IF Head(pending).raises THEN {}
                             ELSE {Head(pending).size}) :
                 LET st == ExecuteSignal(Ledger, adjusted, engine.commission, size)
                 IN /\ signal' = adjusted
                    /\ cash' = st.cash
                    /\ positions' = st.positions
                    /\ trades' = st.trades
                    /\ last' = Step("signal", sig, size)
        ELSE /\ signal' = sig
             /\ last' = Step("signal", sig, 0)
             /\ UNCHANGED <<cash, positions, trades>>
    /\ nsignals' = nsignals + 1
    /\ pending' = IF strategy.kind = "any" THEN pending ELSE Tail(pending)
    /\ UNCHANGED <<engine, results, data, pc, dates, i, historical_data,
                   current_prices, portfolio_history, outcome>>
    /\ UNCHANGED caller

\* engine.py 93-104: calculate_position_size raises inside execute_signal; the
\* signal already carries the adjusted price, the rest of the list is dropped
ProcessSignalRaises ==
    /\ pc = "signals"
    /\ IF strategy.kind = "any" THEN nsignals < MaxSignals
       ELSE pending # <<>> /\ Head(pending).raises
    /\ \E sig \in (IF strategy.kind = "any" THEN Signals ELSE {Head(pending).signal}) :
        LET adjusted == [sig EXCEPT !.price =
                    ApplySlippage(sig.price, sig.signal_type, engine.slippage)]
        IN /\ SignalIsCurrent(sig, dates[i])
           /\ CallsPositionSize(Ledger, adjusted)
           /\ last' = Step("execute_raised", sig, 0)
    /\ signal' = NoSignal
    /\ nsignals' = nsignals + 1
    /\ pending' = <<>>
    /\ i' = AfterException(i, Len(dates))
    /\ pc' = "loop"
    /\ UNCHANGED <<engine, results, data, dates, historical_data, current_prices,
                   cash, positions, trades, portfolio_history, outcome>>
    /\ UNCHANGED caller

\* engine.py 106-107, strategy_base.py 214-226: the list is exhausted
RecordPortfolioState ==
    /\ pc = "signals"
    /\ IF strategy.kind = "any" THEN TRUE ELSE pending = <<>>
    /\ LET updated == UpdatePositions(positions, current_prices)
       IN /\ positions' = updated
          /\ portfolio_history' =
                Append(portfolio_history, Snapshot(dates[i], cash, updated))
    /\ i' = i + 1
    /\ pc' = "loop"
    /\ signal' = NoSignal
    /\ last' = Step("record", NoSignal, 0)
    /\ UNCHANGED <<engine, results, data, dates, historical_data, current_prices,
                   nsignals, pending, cash, trades, outcome>>
    /\ UNCHANGED caller

\* engine.py 203-245: what _calculate_performance_metrics returns (total_return
\* is the fraction (final - initial) / initial, an exact rational)
PerformanceMetrics(history_, log, initial_capital) ==
    IF history_ = <<>>
    THEN [error |-> "No portfolio history available"]
    ELSE [initial_value |-> initial_capital,
          final_value |-> history_[Len(history_)].total_value,
          total_return |-> Rat(history_[Len(history_)].total_value - initial_capital,
                               initial_capital),
          total_trades |-> Len(log),
          portfolio_history |-> history_,
          trades |-> log,
          trade_statistics |-> TradeStatistics(log).stats]

\* engine.py 114-126: metrics, self.results[name], the report lines, return
FinishBacktest ==
    /\ pc = "loop"
    /\ i > Len(dates)
    /\ LET r == PerformanceMetrics(portfolio_history, trades, engine.initial_capital)
       IN /\ results' = With(results, StrategyName, r)
          /\ outcome' = IF "final_value" \in DOMAIN r THEN "returned" ELSE "KeyError"
    /\ pc' = "finished"
    /\ last' = Step("finish", NoSignal, 0)
    /\ UNCHANGED <<engine, data, dates, i, historical_data, current_prices,
                   signal, nsignals, pending, cash, positions, trades,
                   portfolio_history>>
    /\ UNCHANGED caller

Next ==
    \/ RunBacktestNoData
    \/ RunBacktestInitialize
    \/ GenerateSignals
    \/ GenerateSignalsRaises
    \/ ProcessSignal
    \/ ProcessSignalRaises
    \/ RecordPortfolioState
    \/ FinishBacktest

Spec == Init /\ [][Next]_vars

-----------------------------------------------------------------------------
(* FibonacciMACDStrategy (src/src/strategies/fibonacci_macd_strategy.py):    *)
(* the entry rule and the sizing.  Confidence, weights and percentages are   *)
(* integers in hundredths (0.25 is 25, 1.0 is 100).  A bar is one row of the *)
(* indicator frame with the values of the row before it that the rule reads. *)

\* fibonacci_macd_strategy.py 23-36: constructor defaults
fibonacci_period == 50
macd_slow == 26
macd_signal == 9
volume_period == 20
rsi_oversold == 30
position_size_pct == 15
min_confidence == 60
rsi_overbought == 70
take_profit_pct == 15
stop_loss_pct == 8

Max(a, b) == IF a >= b THEN a ELSE b

\* fibonacci_macd_strategy.py 93, 101: rows before this index are skipped
WarmUp == Max(fibonacci_period, Max(macd_slow + macd_signal, volume_period))

Bars ==
    [idx            : {WarmUp - 1, WarmUp},
     fib_position   : {"none", "fib_0.236", "fib_0.382", "fib_0.500", "fib_0.618"},
     macd_bullish   : BOOLEAN,
     macd           : {1, 2},
     prev_macd      : {1},
     rsi_recovering : BOOLEAN,
     rsi            : {25, 40, 60},
     prev_rsi       : {30, 45},
     high_volume    : BOOLEAN,
     volume_trend   : BOOLEAN,
     close          : {99, 101},
     sma_20         : {100}]

\* the number of conditions that hold, the sum of a list of weights
CountTrue(conditions) == Cardinality({ c \in DOMAIN conditions : conditions[c] })

RECURSIVE SumSeq(_)
SumSeq(seq) == IF seq = <<>> THEN 0 ELSE Head(seq) + SumSeq(Tail(seq))

\* a rule that asks for more than three conditions
EnoughConditionsStrict(n) == n > 3

\* fibonacci_macd_strategy.py 299-300: "at least 3 out of 5 conditions"
EnoughConditions(n) == n >= 3

\* fibonacci_macd_strategy.py 257-312: _check_buy_conditions
CheckBuyConditions(bar) ==
    LET fib_condition    == bar.fib_position \in {"fib_0.382", "fib_0.500", "fib_0.618"}
        macd_condition   == bar.macd_bullish /\ bar.macd > bar.prev_macd
        rsi_condition    == \/ bar.rsi_recovering
                            \/ (rsi_oversold < bar.rsi /\ bar.rsi < 50
                                /\ bar.rsi > bar.prev_rsi)
        volume_condition == bar.high_volume /\ bar.volume_trend
        trend_condition  == bar.close > bar.sma_20
        conditions ==
            [fibonacci_support   |-> fib_condition,
             macd_bullish        |-> macd_condition,
             rsi_favorable       |-> rsi_condition,
             volume_confirmation |-> volume_condition,
             trend_favorable     |-> trend_condition]
        confidence_factors ==
            (IF fib_condition THEN <<25>> ELSE <<>>)
            \o (IF macd_condition THEN <<30>> ELSE <<>>)
            \o (IF rsi_condition THEN <<25>> ELSE <<>>)
            \o (IF volume_condition THEN <<20>> ELSE <<>>)
            \o (IF trend_condition THEN <<10>> ELSE <<>>)
    IN [buy_signal |-> EnoughConditions(CountTrue(conditions)),
        confidence |-> SumSeq(confidence_factors),
        conditions |-> conditions]

\* fibonacci_macd_strategy.py 100-118: the entry branch of the loop over the
\* rows, for one row: the BUY signals it appends
EntrySignals(bar) ==
    IF bar.idx < WarmUp THEN <<>>
    ELSE LET checked == CheckBuyConditions(bar)
         IN IF checked.buy_signal /\ checked.confidence >= min_confidence
            THEN << [signal_type |-> "BUY", price |-> bar.close,
                     confidence |-> checked.confidence] >>
            ELSE <<>>

\* fibonacci_macd_strategy.py 370-385: calculate_position_size (pos is
\* self.positions: symbol -> quantity)
FibonacciPositionSize(sig, available_cash, pos) ==
    IF sig.signal_type = "BUY"
    THEN LET target_value == available_cash * position_size_pct * sig.confidence
         IN Max(0, target_value \div (100 * 100 * sig.price))
    ELSE IF sig.signal_type = "SELL"
    THEN IF sig.symbol \in DOMAIN pos THEN pos[sig.symbol] ELSE 0
    ELSE 0

\* the cash the sizing of an entry signal is tried with
SizingCash == 100 * 100

\* fibonacci_macd_strategy.py 314-368: _check_sell_conditions for the row bar
\* and the symbol; pos is self.positions, symbol -> entry_price.  The return
\* on the entry price is compared with 0.15 and -0.08 in hundredths.
CheckSellConditions(bar, symbol, pos) ==
    IF symbol \notin DOMAIN pos
    THEN [sell_signal |-> FALSE, sell_confidence |-> 0, metadata |-> EmptyMap]
    ELSE LET current_price == bar.close
             entry_price   == pos[symbol]
             take_profit_condition ==
                 (current_price - entry_price) * 100 > take_profit_pct * entry_price
             stop_loss_condition ==
                 (current_price - entry_price) * 100 < (0 - stop_loss_pct) * entry_price
             rsi_exit_condition    == bar.rsi > rsi_overbought
             macd_exit_condition   == bar.macd_bearish
             volume_exit_condition == bar.volume_ratio < 80 /\ ~bar.volume_trend
         IN [sell_signal |->
                 \/ take_profit_condition
                 \/ stop_loss_condition
                 \/ (rsi_exit_condition /\ macd_exit_condition),
             sell_confidence |->
                 IF take_profit_condition \/ stop_loss_condition THEN 80 ELSE 60,
             metadata |->
                 [conditions |-> [take_profit    |-> take_profit_condition,
                                  stop_loss      |-> stop_loss_condition,
                                  rsi_overbought |-> rsi_exit_condition,
                                  macd_bearish   |-> macd_exit_condition,
                                  volume_weak    |-> volume_exit_condition],
                  return_pct    |-> Rat(current_price - entry_price, entry_price),
                  entry_price   |-> entry_price,
                  current_price |-> current_price]]

\* The rows and the open positions the exit rule is tried on: the position in
\* X was entered at 100, so a close of 115 is a return of exactly +15% and a
\* close of 92 a return of exactly -8%.
ExitBars ==
    [close        : {91, 92, 93, 100, 114, 115, 116},
     rsi          : {70, 71},
     macd_bearish : BOOLEAN,
     volume_ratio : {79, 80},
     volume_trend : BOOLEAN]

ExitPositions == { EmptyMap, [s \in {"X"} |-> 100], [s \in {"Y"} |-> 100] }

-----------------------------------------------------------------------------
(* Maximum drawdown: BacktestEngine._calculate_max_drawdown (engine.py       *)
(* 255-259) and PerformanceAnalyzer.calculate_max_drawdown (metrics.py       *)
(* 119-126), on a series of positive portfolio values; a drawdown is an      *)
(* exact rational.                                                           *)

RatLess(a, b) == a.num * b.den < b.num * a.den

\* a peak that is the maximum of the whole series
GlobalPeak(values, k) ==
    CHOOSE p \in { values[j] : j \in 1..Len(values) } :
        \A j \in 1..Len(values) : values[j] <= p

\* element k of portfolio_values.expanding().max()
RECURSIVE RunningPeak(_, _)
RunningPeak(values, k) ==
    IF k = 1 THEN values[1] ELSE Max(RunningPeak(values, k - 1), values[k])

\* element k of (portfolio_values - peak) / peak
Drawdown(values, k) ==
    Rat(values[k] - RunningPeak(values, k), RunningPeak(values, k))

\* Series.min() of the first k drawdowns (k >= 1)
RECURSIVE DrawdownMin(_, _)
DrawdownMin(values, k) ==
    IF k = 1 THEN Drawdown(values, 1)
    ELSE LET rest == DrawdownMin(values, k - 1)
             here == Drawdown(values, k)
         IN IF RatLess(here, rest) THEN here ELSE rest

\* engine.py 255-259, on a series that is not empty (engine.py 206-207)
EngineMaxDrawdown(values) == DrawdownMin(values, Len(values))

\* metrics.py 119-126
CalculateMaxDrawdown(values) ==
    IF Len(values) < 2 THEN Rat(0, 1) ELSE DrawdownMin(values, Len(values))

\* the portfolio values the series are drawn from
SeriesValues == {90, 100, 120}

-----------------------------------------------------------------------------
(* The metrics and the strategy rules as functions: a trade log or a bar is  *)
(* drawn, and each function is applied to it once.                           *)

CalcInput(kind, input) == [kind |-> kind, input |-> input, out |-> EmptyMap]

InitCalc ==
    /\ Constructed(CHOOSE a \in EngineArgs : a.commission = 0)
    /\ frame = <<>>
    /\ data = <<>>
    /\ strategy = AnyStrategy
    /\ plan = <<>>
    /\ call = NoCall
    /\ pc = "calc"
    /\ last = Step("construct", NoSignal, 0)
    /\ \/ \E n \in 0..MaxLog : \E f \in [1..n -> LogTrades] :
             calc = CalcInput("trade_log", StampedLog(f))
       \/ \E bar \in Bars : calc = CalcInput("bar", bar)
       \/ \E n \in 0..MaxSeries : \E values \in [1..n -> SeriesValues] :
             calc = CalcInput("values", values)
       \/ \E bar \in ExitBars : \E pos \in ExitPositions :
             calc = CalcInput("exit", [bar |-> bar, symbol |-> "X", positions |-> pos])

Applies(fn, kind) == calc.kind = kind /\ fn \notin DOMAIN calc.out

Applied(fn, value) ==
    /\ calc' = [calc EXCEPT !.out = With(@, fn, value)]
    /\ UNCHANGED <<engine_args, engine, results, frame, strategy, plan, call, history,
                   multi, data, pc, dates, i, historical_data, current_prices,
                   signal, nsignals, pending, cash, positions, trades,
                   portfolio_history, outcome, last>>

CalcRoundTripPnl ==
    /\ Applies("round_trip_pnl", "trade_log")
    /\ Applied("round_trip_pnl", RoundTripPnl(calc.input))

CalcTradeStatistics ==
    /\ Applies("trade_statistics", "trade_log")
    /\ Applied("trade_statistics", TradeStatistics(calc.input))

CalcCheckBuyConditions ==
    /\ Applies("check_buy_conditions", "bar")
    /\ Applied("check_buy_conditions", CheckBuyConditions(calc.input))

CalcEntrySignals ==
    /\ Applies("entry_signals", "bar")
    /\ Applied("entry_signals", EntrySignals(calc.input))

\* execute_signal sizes a signal the strategy emitted (strategy_base.py 119)
CalcPositionSize ==
    /\ Applies("position_size", "bar")
    /\ "entry_signals" \in DOMAIN calc.out
    /\ calc.out["entry_signals"] # <<>>
    /\ Applied("position_size",
               FibonacciPositionSize(calc.out["entry_signals"][1], SizingCash, EmptyMap))

\* fibonacci_macd_strategy.py 122: the exit check of one row
CalcCheckSellConditions ==
    /\ Applies("check_sell_conditions", "exit")
    /\ Applied("check_sell_conditions",
               CheckSellConditions(calc.input.bar, calc.input.symbol,
                                   calc.input.positions))

\* engine.py 221: the engine's drawdown of the snapshot values
CalcEngineMaxDrawdown ==
    /\ Applies("engine_max_drawdown", "values")
    /\ calc.input # <<>>
    /\ Applied("engine_max_drawdown", EngineMaxDrawdown(calc.input))

\* metrics.py 88: the analyzer's drawdown of the same values
CalcCalculateMaxDrawdown ==
    /\ Applies("calculate_max_drawdown", "values")
    /\ Applied("calculate_max_drawdown", CalculateMaxDrawdown(calc.input))

CalcTradeMetrics ==
    /\ Applies("trade_metrics", "trade_log")
    /\ Applied("trade_metrics", TradeMetrics(calc.input))

NextCalc ==
    \/ CalcRoundTripPnl
    \/ CalcTradeStatistics
    \/ CalcCheckBuyConditions
    \/ CalcEntrySignals
    \/ CalcPositionSize
    \/ CalcCheckSellConditions
    \/ CalcEngineMaxDrawdown
    \/ CalcCalculateMaxDrawdown
    \/ CalcTradeMetrics

SpecCalc == InitCalc /\ [][NextCalc]_vars

-----------------------------------------------------------------------------
(* The caller: a sequence of public calls on one engine and one strategy     *)
(* object, with one data frame.  run_backtest is entered with its date       *)
(* arguments (engine.py 56-58); run_multiple_backtests (engine.py 128-161)   *)
(* is called with a list that holds the strategy object call.n times.        *)

\* engine.py 163-186: _filter_data_by_date (the frame has a date index)
FilterDataByDate(d, start_date, end_date) ==
    LET from_start == IF start_date # 0
                      THEN SelectSeq(d, LAMBDA row : row.timestamp >= start_date)
                      ELSE d
    IN IF end_date # 0
       THEN SelectSeq(from_start, LAMBDA row : row.timestamp <= end_date)
       ELSE from_start

\* engine.py 57-58: the frame run_backtest works on
RunData(d, start_date, end_date) ==
    IF start_date # 0 \/ end_date # 0 THEN FilterDataByDate(d, start_date, end_date)
    ELSE d

\* strategy_base.py 239-247: StrategyBase.reset
Reset(st) ==
    [cash |-> 0, positions |-> EmptyMap, trades |-> <<>>, portfolio_history |-> <<>>]

\* what the caller holds when a call has come back: the call, how it ended,
\* the value it returned, and the objects as they are then
Observation(c, ended, value, st, stored) ==
    [call |-> c, outcome |-> ended, value |-> value, cash |-> st.cash,
     positions |-> st.positions, trades |-> st.trades,
     portfolio_history |-> st.portfolio_history, results |-> stored]

\* run_backtest is entered: fresh locals, the frame filtered by the dates
EnterRunBacktest(c) ==
    /\ data' = RunData(frame, c.start_date, c.end_date)
    /\ dates' = <<>>
    /\ i' = 0
    /\ historical_data' = <<>>
    /\ current_prices' = EmptyMap
    /\ signal' = NoSignal
    /\ nsignals' = 0
    /\ pending' = <<>>
    /\ outcome' = "none"
    /\ pc' = "start"

\* engine.py 33-58: the caller calls run_backtest(strategy, data, start, end)
CallRunBacktest ==
    /\ pc = "idle"
    /\ plan # <<>>
    /\ Head(plan).op = "run_backtest"
    /\ call' = Head(plan)
    /\ plan' = Tail(plan)
    /\ EnterRunBacktest(Head(plan))
    /\ last' = Step("call", NoSignal, 0)
    /\ UNCHANGED <<engine_args, engine, results, frame, strategy, history, multi,
                   cash, positions, trades, portfolio_history, calc>>

\* engine.py 61, 121, 126: run_backtest comes back to the caller, with its
\* result or with the exception
ReturnRunBacktest ==
    /\ pc = "finished"
    /\ call.op = "run_backtest"
    /\ history' = Append(history,
            Observation(call, outcome,
                        IF outcome = "returned" THEN results[StrategyName] ELSE None,
                        StrategyState, results))
    /\ pc' = "idle"
    /\ last' = Step("return", NoSignal, 0)
    /\ UNCHANGED <<engine_args, engine, results, frame, strategy, plan, call, multi,
                   data, dates, i, historical_data, current_prices, signal, nsignals,
                   pending, cash, positions, trades, portfolio_history, outcome, calc>>

\* strategy_base.py 239-247: the caller calls strategy.reset()
CallReset ==
    /\ pc = "idle"
    /\ plan # <<>>
    /\ Head(plan).op = "reset"
    /\ call' = Head(plan)
    /\ plan' = Tail(plan)
    /\ LET st == Reset(StrategyState)
       IN /\ cash' = st.cash
          /\ positions' = st.positions
          /\ trades' = st.trades
          /\ portfolio_history' = st.portfolio_history
          /\ history' = Append(history,
                               Observation(Head(plan), "returned", None, st, results))
    /\ outcome' = "returned"
    /\ last' = Step("reset", NoSignal, 0)
    /\ UNCHANGED <<engine_args, engine, results, frame, strategy, multi, data, pc,
                   dates, i, historical_data, current_prices, signal, nsignals,
                   pending, calc>>

\* the Signal of a direct call: one share of X at 1.00
DirectSignal ==
    [timestamp |-> 1, symbol |-> "X", signal_type |-> "BUY", price |-> 1 * SCALE]

\* strategy_base.py 117-128: the caller calls strategy.execute_signal(signal)
\* itself, outside any run (commission takes its default 0.0, the size is 1)
CallExecuteSignal ==
    /\ pc = "idle"
    /\ plan # <<>>
    /\ Head(plan).op = "execute_signal"
    /\ call' = Head(plan)
    /\ plan' = Tail(plan)
    /\ LET st == ExecuteSignal(Ledger, DirectSignal, 0, 1)
       IN /\ cash' = st.cash
          /\ positions' = st.positions
          /\ trades' = st.trades
          /\ history' = Append(history,
                 Observation(Head(plan), "returned", None,
                             [cash |-> st.cash, positions |-> st.positions,
                              trades |-> st.trades,
                              portfolio_history |-> portfolio_history],
                             results))
    /\ outcome' = "returned"
    /\ last' = Step("direct", DirectSignal, 1)
    /\ UNCHANGED <<engine_args, engine, results, frame, strategy, multi, data, pc,
                   dates, i, historical_data, current_prices, signal, nsignals,
                   pending, portfolio_history, calc>>

\* engine.py 128-149: the caller calls run_multiple_backtests; results = {}
CallRunMultiple ==
    /\ pc = "idle"
    /\ plan # <<>>
    /\ Head(plan).op = "run_multiple_backtests"
    /\ call' = Head(plan)
    /\ plan' = Tail(plan)
    /\ multi' = [k |-> 1, results |-> EmptyMap, runs |-> <<>>]
    /\ outcome' = "none"
    /\ pc' = "multiple"
    /\ last' = Step("call_multiple", NoSignal, 0)
    /\ UNCHANGED <<engine_args, engine, results, frame, strategy, history, data,
                   dates, i, historical_data, current_prices, signal, nsignals,
                   pending, cash, positions, trades, portfolio_history, calc>>

\* engine.py 151-155: the next strategy of the list: reset(), then run_backtest
RunMultipleNext ==
    /\ pc = "multiple"
    /\ multi.k <= call.n
    /\ LET st == Reset(StrategyState)
       IN /\ cash' = st.cash
          /\ positions' = st.positions
          /\ trades' = st.trades
          /\ portfolio_history' = st.portfolio_history
    /\ strategy' = IF call.strategies = <<>> THEN strategy
                   ELSE call.strategies[multi.k]
    /\ EnterRunBacktest(call)
    /\ last' = Step("multiple_next", NoSignal, 0)
    /\ UNCHANGED <<engine_args, engine, results, frame, plan, call,
                   history, multi, calc>>

\* engine.py 155-159: run_backtest came back inside the try block: its result
\* is stored under the strategy's name, or None when it raised
RunMultipleCollect ==
    /\ pc = "finished"
    /\ call.op = "run_multiple_backtests"
    /\ LET result == IF outcome = "returned" THEN results[StrategyName] ELSE None
       IN multi' = [k |-> multi.k + 1,
                    results |-> With(multi.results, StrategyName, result),
                    runs |-> Append(multi.runs, result)]
    /\ pc' = "multiple"
    /\ last' = Step("multiple_collect", NoSignal, 0)
    /\ UNCHANGED <<engine_args, engine, results, frame, strategy, plan, call,
                   history, data, dates, i, historical_data, current_prices, signal,
                   nsignals, pending, cash, positions, trades, portfolio_history,
                   outcome, calc>>

\* engine.py 161: the list is exhausted, the dictionary is returned
RunMultipleReturn ==
    /\ pc = "multiple"
    /\ multi.k > call.n
    /\ outcome' = "returned"
    /\ history' = Append(history,
            Observation(call, "returned", multi.results, StrategyState, results))
    /\ pc' = "idle"
    /\ last' = Step("multiple_return", NoSignal, 0)
    /\ UNCHANGED <<engine_args, engine, results, frame, strategy, plan, call, multi,
                   data, dates, i, historical_data, current_prices, signal, nsignals,
                   pending, cash, positions, trades, portfolio_history, calc>>

-----------------------------------------------------------------------------
(* The callers, frames and strategies tried *)

ScriptTimes == 1..5

Move(signal_type, symbol, size, stale, raises) ==
    [signal_type |-> signal_type, symbol |-> symbol, size |-> size,
     stale |-> stale, raises |-> raises]

Play(moves) == [raises |-> FALSE, moves |-> moves]
Quiet == Play(<<>>)
Raising == [raises |-> TRUE, moves |-> <<>>]

Scripted(script) == [kind |-> "scripted", name |-> "S", script |-> script]

\* what a strategy of the small market does at one timestamp
Plays ==
    { Quiet, Raising,
      Play(<<Move("BUY", "X", 2, FALSE, FALSE)>>),
      Play(<<Move("BUY", "X", 1, FALSE, FALSE), Move("SELL", "X", 2, FALSE, FALSE)>>),
      Play(<<Move("SELL", "X", 1, FALSE, FALSE)>>),
      Play(<<Move("BUY", "Y", 1, TRUE, FALSE), Move("BUY", "Y", 1, FALSE, FALSE)>>),
      Play(<<Move("BUY", "X", 1, FALSE, TRUE)>>),
      Play(<<Move("BUY", "X", 1, FALSE, FALSE), Move("BUY", "X", 2, FALSE, FALSE),
             Move("SELL", "X", 2, FALSE, FALSE)>>) }

Strategies ==
    { Scripted([t \in ScriptTimes |-> IF t = 1 THEN p1 ELSE IF t = 2 THEN p2 ELSE Quiet]) :
        p1 \in Plays, p2 \in Plays }

Bar(t, symbol, close) == [timestamp |-> t, symbol |-> symbol, close |-> close]

Frames ==
    { <<>>,
      <<Bar(1, "X", 1 * SCALE)>>,
      <<Bar(1, "X", 1 * SCALE), Bar(2, "X", 2 * SCALE)>>,
      <<Bar(2, "X", 2 * SCALE), Bar(1, "Y", 2 * SCALE), Bar(1, "X", 1 * SCALE)>> }

\* the date 3 lies after every bar of the small market
Plans ==
    { <<RunBacktestCall(0, 0), RunBacktestCall(0, 0)>>,
      <<RunBacktestCall(0, 0), ResetCall, RunBacktestCall(0, 0)>>,
      <<RunBacktestCall(0, 0), ExecuteSignalCall, RunBacktestCall(0, 0)>>,
      <<RunBacktestCall(2, 0), ResetCall, RunBacktestCall(2, 0)>>,
      <<RunBacktestCall(0, 0), RunBacktestCall(3, 0)>>,
      <<RunBacktestCall(0, 1), RunBacktestCall(2, 1)>>,
      <<RunMultipleCall(1, 0, 0)>>,
      <<RunMultipleCall(2, 0, 1)>>,
      <<RunBacktestCall(0, 0), RunMultipleCall(1, 3, 0)>> }

\* the five bars of the end-to-end scenario
FiveBars ==
    << Bar(1, "X", 100 * SCALE), Bar(2, "X", 105 * SCALE), Bar(3, "X", 95 * SCALE),
       Bar(4, "X", 90 * SCALE), Bar(5, "X", 120 * SCALE) >>

\* buy quantity shares of X at bar buy_bar, sell them at bar sell_bar
ScenarioStrategy(buy_bar, sell_bar, quantity) ==
    Scripted([t \in ScriptTimes |->
        Play((IF t = buy_bar THEN <<Move("BUY", "X", quantity, FALSE, FALSE)>> ELSE <<>>)
             \o (IF t = sell_bar THEN <<Move("SELL", "X", quantity, FALSE, FALSE)>>
                 ELSE <<>>))])

ScenarioArgs ==
    [initial_capital : {10000 * SCALE, 1000 * SCALE}, commission : {0, 10},
     slippage : {0, 5}]

\* an engine whose commission argument is a flat fee of 3.00 a trade, above
\* the price of a share of the small market
FlatFeeArgs ==
    { [initial_capital |-> 5 * SCALE, commission |-> 3 * SCALE, slippage |-> 0] }

InitCaller ==
    /\ data = <<>>
    /\ call = NoCall
    /\ pc = "idle"
    /\ calc = NoCalc
    /\ last = Step("construct", NoSignal, 0)

\* the strategy s under another name
Named(s, name) == [s EXCEPT !.name = name]

\* lists of two distinct strategy objects, each either buying 2 X at the first
\* bar or doing nothing, and each named S or T
StrategyLists ==
    { << Named(Scripted([t \in ScriptTimes |-> IF t = 1 THEN p1 ELSE Quiet]), n1),
         Named(Scripted([t \in ScriptTimes |-> IF t = 1 THEN p2 ELSE Quiet]), n2) >> :
        p1 \in {Quiet, Play(<<Move("BUY", "X", 2, FALSE, FALSE)>>)},
        p2 \in {Quiet, Play(<<Move("BUY", "X", 2, FALSE, FALSE)>>)},
        n1 \in {"S", "T"}, n2 \in {"S", "T"} }

InitRuns ==
    /\ InitCaller
    /\ \/ /\ \E a \in EngineArgs \cup FlatFeeArgs : Constructed(a)
          /\ frame \in Frames
          /\ strategy \in Strategies
          /\ plan \in Plans
       \/ /\ \E a \in ScenarioArgs : Constructed(a)
          /\ frame = FiveBars
          /\ strategy \in { ScenarioStrategy(b, s, q) :
                              b \in ScriptTimes, s \in ScriptTimes, q \in {10, 20} }
          /\ plan = <<RunBacktestCall(0, 0)>>
       \/ /\ \E a \in EngineArgs : Constructed(a)
          /\ frame \in Frames \ {<<>>}
          /\ \E list \in StrategyLists :
                /\ strategy = list[1]
                /\ plan = <<RunMultipleOf(list, 0, 0)>>

NextRuns ==
    \/ CallRunBacktest
    \/ RunBacktestNoData
    \/ RunBacktestInitialize
    \/ GenerateSignals
    \/ GenerateSignalsRaises
    \/ ProcessSignal
    \/ ProcessSignalRaises
    \/ RecordPortfolioState
    \/ FinishBacktest
    \/ ReturnRunBacktest
    \/ CallReset
    \/ CallExecuteSignal
    \/ CallRunMultiple
    \/ RunMultipleNext
    \/ RunMultipleCollect
    \/ RunMultipleReturn

SpecRuns == InitRuns /\ [][NextRuns]_vars

-----------------------------------------------------------------------------
(* Vocabulary of the properties *)

Count(seq, r) == Cardinality({ k \in 1..Len(seq) : seq[k] = r })

\* the slice is the point-in-time view of the frame at timestamp t
PointInTime(slice, t) ==
    /\ \A k \in 1..Len(slice) : slice[k].timestamp <= t
    /\ \A r \in Rows : Count(slice, r) = IF r.timestamp <= t THEN Count(data, r) ELSE 0
    /\ \E k \in 1..Len(slice) : slice[k].timestamp = t

\* this step appended a trade record
TradeAppended == Len(trades') = Len(trades) + 1 /\ SubSeq(trades', 1, Len(trades)) = trades
NewTrade == trades'[Len(trades')]
LastTrade == trades[Len(trades)]

\* this step is one pass of the loop over the returned signals (engine.py 93-100)
SignalStep == pc = "signals" /\ pc' = "signals" /\ last'.op = "signal"

\* the timestamps of the snapshot history, in order
SnapshotTimes == [k \in 1..Len(portfolio_history) |-> portfolio_history[k].timestamp]

-----------------------------------------------------------------------------
(* C1: no look-ahead.  Whenever generate_signals has been called for the     *)
(* current timestamp t (it returned, or it raised), the slice it was given   *)
(* holds every row of the frame with timestamp <= t, no row with timestamp   *)
(* > t, and a row with timestamp t, so its maximum timestamp is t.           *)
C1_NoLookAhead ==
    /\ pc = "signals" => PointInTime(historical_data, dates[i])
    /\ last.op = "generate_raised" => PointInTime(historical_data, dates[i - 1])

\* a call whose frame starts with a row of the future, which the slice leaves out
C1_Witness ==
    /\ pc = "signals"
    /\ data[1].timestamp > dates[i]
    /\ Len(historical_data) < Len(data)

(* C2: cash >= 0 after any executed buy.  Every step that appends a BUY      *)
(* record had quantity * price + commission <= cash before it and leaves     *)
(* cash >= 0.                                                                *)
C2_CashAfterBuy ==
    [][ (TradeAppended /\ NewTrade.action = "BUY") =>
            /\ NewTrade.quantity * NewTrade.price + NewTrade.commission <= cash
            /\ cash' >= 0 ]_vars

\* a second buy that leaves less cash than one more share at the lowest price costs
C2_Witness ==
    /\ Len(trades) = 2
    /\ LastTrade.action = "BUY"
    /\ cash < 1 * SCALE

(* C3: ledger conservation.  A step that appends a BUY record of q shares at *)
(* execution price p with commission c lowers cash by exactly q*p + c and    *)
(* records total_cost = q*p + c; a step that appends a SELL record raises    *)
(* cash by exactly q*p - c and records proceeds = q*p - c; p is the price    *)
(* the signal carries when executed and c the engine's commission; every     *)
(* other step of the replay loop leaves cash unchanged, and records are only *)
(* ever appended one at a time.                                              *)
C3_LedgerConservation ==
    [][ /\ pc # "start" => (TradeAppended \/ trades' = trades)
        /\ (pc # "start" /\ trades' = trades) => cash' = cash
        /\ (pc # "start" /\ TradeAppended) =>
            LET q == NewTrade.quantity
                p == NewTrade.price
                c == NewTrade.commission
            IN /\ SignalStep
               /\ p = signal'.price
               /\ c = engine.commission
               /\ q >= 1
               /\ NewTrade.action \in {"BUY", "SELL"}
               /\ NewTrade.action = "BUY" =>
                    cash' = cash - (q * p + c) /\ NewTrade.total_cost = q * p + c
               /\ NewTrade.action = "SELL" =>
                    cash' = cash + (q * p - c) /\ NewTrade.proceeds = q * p - c
      ]_vars

\* a buy followed by a sell, both recorded
C3_Witness ==
    /\ Len(trades) = 2
    /\ trades[1].action = "BUY"
    /\ trades[2].action = "SELL"
    /\ cash = engine.initial_capital - trades[1].total_cost + trades[2].proceeds

(* C4: position lifecycle.  After every step each open position has quantity *)
(* >= 1; a step that appends a SELL record of q shares had an open position  *)
(* of at least q shares of that symbol, leaves it with q shares less, and    *)
(* removes it from the open set exactly when nothing is left; this holds for *)
(* every value calculate_position_size returns.                              *)
C4_PositionLifecycle ==
    [][ /\ \A s \in DOMAIN positions' : positions'[s].quantity >= 1
        /\ (TradeAppended /\ NewTrade.action = "SELL") =>
            LET s == NewTrade.symbol IN
            /\ s \in DOMAIN positions
            /\ NewTrade.quantity <= positions[s].quantity
            /\ (s \in DOMAIN positions') <=> (NewTrade.quantity < positions[s].quantity)
            /\ s \in DOMAIN positions' =>
                    positions'[s].quantity = positions[s].quantity - NewTrade.quantity
      ]_vars

\* a sell request larger than the holding sold exactly the holding and closed it
C4_Witness ==
    /\ last.op = "signal"
    /\ last.signal.signal_type = "SELL"
    /\ nsignals = 2
    /\ Len(trades) = 2
    /\ trades[1].action = "BUY"
    /\ LastTrade.action = "SELL"
    /\ LastTrade.symbol = last.signal.symbol
    /\ Abs(last.position_size) > LastTrade.quantity
    /\ LastTrade.symbol \notin DOMAIN positions

(* C5: a rejected signal is a no-op.  A pass of the signal loop over a       *)
(* current Buy whose size is positive and whose cost quantity * price +      *)
(* commission exceeds cash, or over a current Sell for a symbol with no open *)
(* position, leaves cash, positions and the trade log unchanged and the loop *)
(* goes on (no exception).                                                   *)
C5_RejectedIsNoOp ==
    [][ ( /\ pc = "signals"
          /\ last'.op \in {"signal", "execute_raised"}
          /\ last'.signal.timestamp = dates[i]
          /\ \/ /\ last'.signal.signal_type = "BUY"
                /\ last'.op = "signal"
                /\ last'.position_size > 0
                /\ last'.position_size
                     * ApplySlippage(last'.signal.price, "BUY", engine.slippage)
                     + engine.commission > cash
             \/ /\ last'.signal.signal_type = "SELL"
                /\ last'.signal.symbol \notin DOMAIN positions )
        => /\ cash' = cash
           /\ positions' = positions
           /\ trades' = trades
           /\ pc' = "signals"
           /\ outcome' = outcome
      ]_vars

\* a Buy of a positive size that the cash left after a buy of the other symbol
\* cannot fund: the log still holds that one trade
C5_Witness ==
    /\ pc = "signals"
    /\ last.op = "signal"
    /\ last.signal.timestamp = dates[i]
    /\ last.signal.signal_type = "BUY"
    /\ last.position_size > 0
    /\ last.position_size * signal.price + engine.commission > cash
    /\ nsignals = 2
    /\ Len(trades) = 1
    /\ LastTrade.symbol # last.signal.symbol
    /\ positions[LastTrade.symbol].quantity = LastTrade.quantity
    /\ DOMAIN positions = {LastTrade.symbol}
    /\ cash = engine.initial_capital - LastTrade.total_cost
    /\ cash > 0

(* C6: one position per symbol, buys accumulate.  A step that appends a BUY  *)
(* record of q2 shares at price p2 for a symbol with an open position of q1  *)
(* shares at entry price e1 leaves that position with q1 + q2 shares and     *)
(* entry price (q1*e1 + q2*p2) / (q1 + q2); for a symbol without one it      *)
(* opens a position of q2 shares at entry price p2; a step that appends a    *)
(* SELL record leaves the entry price of what remains unchanged; positions   *)
(* of other symbols are not touched by a trade.                              *)
C6_BuysAccumulate ==
    [][ TradeAppended =>
          LET s  == NewTrade.symbol
              q2 == NewTrade.quantity
              p2 == NewTrade.price
          IN /\ \A o \in Symbols \ {s} :
                    /\ (o \in DOMAIN positions') <=> (o \in DOMAIN positions)
                    /\ o \in DOMAIN positions => positions'[o] = positions[o]
             /\ (NewTrade.action = "BUY" /\ s \in DOMAIN positions) =>
                    LET q1 == positions[s].quantity
                        e1 == positions[s].entry_price
                        e  == positions'[s].entry_price
                    IN /\ s \in DOMAIN positions'
                       /\ positions'[s].quantity = q1 + q2
                       /\ e.den > 0
                       /\ e.num * (e1.den * (q1 + q2))
                            = (q1 * e1.num + q2 * p2 * e1.den) * e.den
             /\ (NewTrade.action = "BUY" /\ s \notin DOMAIN positions) =>
                    /\ s \in DOMAIN positions'
                    /\ positions'[s].quantity = q2
                    /\ positions'[s].entry_price = [num |-> p2, den |-> 1]
             /\ (NewTrade.action = "SELL" /\ s \in DOMAIN positions') =>
                    positions'[s].entry_price = positions[s].entry_price
      ]_vars

\* two buys of one symbol at different prices merged into one position
C6_Witness ==
    /\ Len(trades) = 2
    /\ trades[1].action = "BUY" /\ trades[2].action = "BUY"
    /\ trades[1].symbol = trades[2].symbol
    /\ trades[1].price # trades[2].price
    /\ DOMAIN positions = {trades[1].symbol}
    /\ positions[trades[1].symbol].quantity = trades[1].quantity + trades[2].quantity
    /\ positions[trades[1].symbol].entry_price.den > 1

(* C7: only the current timestamp's signals are executed.  A pass of the     *)
(* signal loop over a signal whose timestamp differs from the iteration's    *)
(* timestamp leaves the signal's price as the strategy set it and leaves     *)
(* cash, positions and the trade log unchanged.                              *)
C7_OnlyCurrentSignals ==
    [][ (pc = "signals" /\ last'.op \in {"signal", "execute_raised"}
            /\ last'.signal.timestamp # dates[i])
        => /\ last'.op = "signal"
           /\ signal' = last'.signal
           /\ cash' = cash
           /\ positions' = positions
           /\ trades' = trades
      ]_vars

\* a Buy for another timestamp that the cash at hand could have funded, left alone
C7_Witness ==
    /\ pc = "signals"
    /\ last.op = "signal"
    /\ last.signal.timestamp # dates[i]
    /\ last.signal.signal_type = "BUY"
    /\ signal = last.signal
    /\ ApplySlippage(signal.price, "BUY", engine.slippage) + engine.commission <= cash
    /\ trades = <<>>

(* C8: one snapshot per period.  When run_backtest has returned, the         *)
(* timestamps of the snapshot history are exactly the unique timestamps of   *)
(* the data, in ascending order.                                             *)
C8_OneSnapshotPerTimestamp ==
    outcome = "returned" => SnapshotTimes = dates

(* C9: partial-failure isolation.  For a non-empty dataset run_backtest      *)
(* ends by returning a Result, never by propagating an exception, whatever   *)
(* the timestamps at which the strategy raised.                              *)
C9_AlwaysReturnsResult ==
    (pc = "finished" /\ data # <<>>) => outcome = "returned"

(* C10: a raise of generate_signals skips only its timestamp.  The step in   *)
(* which generate_signals raises leaves cash, positions and the trade log    *)
(* unchanged and moves the loop to the next date; the loop index only ever   *)
(* advances by one, over strictly ascending dates, and the run ends only     *)
(* after the index has passed the last date.                                 *)
C10_RaiseSkipsTimestamp ==
    [][ /\ last'.op = "generate_raised" =>
            /\ cash' = cash /\ positions' = positions /\ trades' = trades
            /\ pc' = "loop"
            /\ i' = i + 1
        /\ (pc # "start" /\ i' # i) => i' = i + 1
        /\ (pc = "loop" /\ pc' = "finished") => i = Len(dates) + 1
        /\ \A k \in 1..(Len(dates') - 1) : dates'[k] < dates'[k + 1]
      ]_vars

\* generate_signals raised at the first date and a later date is still to come
C10_Witness ==
    /\ last.op = "generate_raised"
    /\ pc = "loop"
    /\ i = 2
    /\ Len(dates) = 2

-----------------------------------------------------------------------------
-----------------------------------------------------------------------------
(* C17: commission is a fraction of the trade value.  Every trade the ledger *)
(* records is charged commission rate x quantity x execution price, the rate *)
(* being the engine's commission.                                            *)
C17_CommissionIsFraction ==
    [][ TradeAppended =>
          NewTrade.commission * SCALE =
              engine.commission * NewTrade.quantity * NewTrade.price ]_vars

-----------------------------------------------------------------------------
(* Vocabulary of C18: first-in-first-out matching stated without the loop.   *)

CalcDone(kind, fns) == calc.kind = kind /\ fns \subseteq DOMAIN calc.out

\* the lots the BUYs of a symbol open, in log order
BuyLots(log, symbol) ==
    LET buys == SelectSeq(log, LAMBDA t : t.action = "BUY" /\ t.symbol = symbol)
    IN [k \in 1..Len(buys) |-> Lot(buys[k])]

RECURSIVE LotsCost(_)
LotsCost(lots) ==
    IF lots = <<>> THEN 0
    ELSE Head(lots).quantity * Head(lots).price + LotsCost(Tail(lots))

RECURSIVE RecordsQuantity(_)
RecordsQuantity(records) ==
    IF records = <<>> THEN 0 ELSE Head(records).quantity + RecordsQuantity(Tail(records))

RECURSIVE RecordsEntryCost(_)
RecordsEntryCost(records) ==
    IF records = <<>> THEN 0
    ELSE Head(records).entry_price * Head(records).quantity
         + RecordsEntryCost(Tail(records))

\* the lots that remain when quantity q is taken from the oldest end
RECURSIVE DropOldest(_, _)
DropOldest(lots, q) ==
    IF q = 0 \/ lots = <<>> THEN lots
    ELSE IF Head(lots).quantity <= q THEN DropOldest(Tail(lots), q - Head(lots).quantity)
    ELSE <<[Head(lots) EXCEPT !.quantity = @ - q]>> \o Tail(lots)

\* The quantity each SELL of a symbol can match is the smaller of its quantity
\* and the quantity open before it: the total matched and its sale proceeds.
RECURSIVE Matched(_, _, _, _)
Matched(log, k, symbol, open) ==
    IF k > Len(log) THEN [quantity |-> 0, proceeds |-> 0]
    ELSE IF log[k].symbol # symbol THEN Matched(log, k + 1, symbol, open)
    ELSE IF log[k].action = "BUY"
    THEN Matched(log, k + 1, symbol, open + log[k].quantity)
    ELSE LET q    == Min(log[k].quantity, open)
             rest == Matched(log, k + 1, symbol, open - q)
         IN [quantity |-> q + rest.quantity,
             proceeds |-> q * log[k].price + rest.proceeds]

\* the log of the example: Buy 10 @ 100, Buy 10 @ 110, Sell 15 @ 120 of X
ExampleLog ==
    << [action |-> "BUY", symbol |-> "X", quantity |-> 10, price |-> 100, timestamp |-> 1],
       [action |-> "BUY", symbol |-> "X", quantity |-> 10, price |-> 110, timestamp |-> 2],
       [action |-> "SELL", symbol |-> "X", quantity |-> 15, price |-> 120, timestamp |-> 3] >>

ExampleOpenLots == [X |-> << [quantity |-> 5, price |-> 110, timestamp |-> 2] >>]

-----------------------------------------------------------------------------
(* C18: first-in-first-out lot matching.  For every trade log, processed in  *)
(* order by _calculate_round_trip_pnl and by _calculate_trade_statistics:    *)
(* every matched piece has P&L (sell price - buy price) x matched quantity;  *)
(* per symbol, each SELL matches as much as is open, the pieces are taken    *)
(* from the oldest lots (the lots left open are what remains of the BUY lots *)
(* when the matched quantity is taken from the oldest end, a lot being split *)
(* when it is larger than what is left to match), and the engine's total P&L *)
(* is the matched proceeds less the cost of the lots consumed.  For the log  *)
(* Buy 10 @ 100, Buy 10 @ 110, Sell 15 @ 120 the P&L pieces sum to 250 and   *)
(* exactly one lot, 5 @ 110, stays open.                                     *)
C18_FifoMatching ==
    CalcDone("trade_log", {"round_trip_pnl", "trade_statistics"}) =>
        LET log      == calc.input
            analyzer == calc.out["round_trip_pnl"]
            engine_  == calc.out["trade_statistics"]
            Consumed(symbol) ==
                LotsCost(BuyLots(log, symbol))
                - LotsCost(LotsOf(analyzer.positions, symbol))
        IN /\ \A k \in 1..Len(analyzer.pnl_trades) :
                LET r == analyzer.pnl_trades[k]
                IN /\ r.quantity > 0
                   /\ r.pnl = (r.exit_price - r.entry_price) * r.quantity
           /\ \A symbol \in {"X", "Y"} :
                LET records == SelectSeq(analyzer.pnl_trades,
                                         LAMBDA r : r.symbol = symbol)
                    matched == Matched(log, 1, symbol, 0)
                    open    == DropOldest(BuyLots(log, symbol), matched.quantity)
                IN /\ RecordsQuantity(records) = matched.quantity
                   /\ LotsOf(analyzer.positions, symbol) = open
                   /\ LotsOf(engine_.positions, symbol) = open
                   /\ RecordsEntryCost(records) = Consumed(symbol)
                   /\ SumPnl(records) = matched.proceeds - Consumed(symbol)
           /\ "total_pnl" \in DOMAIN engine_.stats =>
                engine_.stats.total_pnl =
                    (Matched(log, 1, "X", 0).proceeds - Consumed("X"))
                    + (Matched(log, 1, "Y", 0).proceeds - Consumed("Y"))
           /\ log = ExampleLog =>
                /\ SumPnl(analyzer.pnl_trades) = 250
                /\ engine_.stats.total_pnl = 250
                /\ analyzer.positions = ExampleOpenLots
                /\ engine_.positions = ExampleOpenLots

\* both functions have processed the log of the example
C18_Witness ==
    /\ CalcDone("trade_log", {"round_trip_pnl", "trade_statistics"})
    /\ calc.input = ExampleLog
    /\ Len(calc.out["round_trip_pnl"].pnl_trades) = 2
    /\ calc.out["round_trip_pnl"].pnl_trades[2].quantity = 5
    /\ calc.out["trade_statistics"].stats.completed_trades = 2

-----------------------------------------------------------------------------
(* Vocabulary of C19 and C20 *)

\* the weights of the five entry conditions, in hundredths
ConditionWeight ==
    [fibonacci_support |-> 25, macd_bullish |-> 30, rsi_favorable |-> 25,
     volume_confirmation |-> 20, trend_favorable |-> 10]

\* the summed weight of the conditions that hold
WeightOf(conditions) ==
    SumSeq([k \in 1..5 |->
        LET c == <<"fibonacci_support", "macd_bullish", "rsi_favorable",
                   "volume_confirmation", "trend_favorable">>[k]
        IN IF conditions[c] THEN ConditionWeight[c] ELSE 0])

BarChecked == CalcDone("bar", {"check_buy_conditions", "entry_signals"})
ConditionsHeld == CountTrue(calc.out["check_buy_conditions"].conditions)
BuyEmitted == calc.out["entry_signals"] # <<>>

-----------------------------------------------------------------------------
(* C19 as stated: at every bar past the warm-up window the strategy emits a  *)
(* Buy signal whenever at least 3 of the 5 entry conditions hold at that     *)
(* bar, and none when fewer than 3 hold.                                     *)
C19_BuyWheneverThreeHold ==
    (BarChecked /\ calc.input.idx >= WarmUp) => (BuyEmitted <=> ConditionsHeld >= 3)

(* C19, amended: at every bar past the warm-up window the strategy emits a   *)
(* Buy signal exactly when at least 3 of the 5 entry conditions hold and the *)
(* summed weight of the conditions that hold is at least min_confidence      *)
(* (0.6 by default); the signal's confidence is that sum.  A bar inside the  *)
(* warm-up window emits nothing.                                             *)
C19_BuyWhenThreeHoldAndConfident ==
    BarChecked =>
        LET weight == WeightOf(calc.out["check_buy_conditions"].conditions)
        IN /\ calc.input.idx >= WarmUp =>
                (BuyEmitted <=> (ConditionsHeld >= 3 /\ weight >= min_confidence))
           /\ calc.input.idx < WarmUp => ~BuyEmitted
           /\ BuyEmitted =>
                /\ Len(calc.out["entry_signals"]) = 1
                /\ calc.out["entry_signals"][1].confidence = weight

\* three conditions of summed weight 0.55 hold at a bar past the warm-up
\* window, and no Buy is emitted
C19_Witness ==
    /\ BarChecked
    /\ calc.input.idx >= WarmUp
    /\ ConditionsHeld = 3
    /\ calc.out["check_buy_conditions"].buy_signal
    /\ calc.out["check_buy_conditions"].confidence = 55
    /\ ~BuyEmitted

-----------------------------------------------------------------------------
(* C20: every Signal that reaches position sizing has confidence within      *)
(* [0, 1]: the summed weights are clamped to at most 1 before the signal is  *)
(* used.                                                                     *)
C20_ConfidenceInUnitRange ==
    CalcDone("bar", {"entry_signals", "position_size"}) =>
        \A k \in 1..Len(calc.out["entry_signals"]) :
            /\ calc.out["entry_signals"][k].confidence >= 0
            /\ calc.out["entry_signals"][k].confidence <= 100

-----------------------------------------------------------------------------
(* Vocabulary of C11..C15 *)

LastSeen == history[Len(history)]

\* the date arguments of call c select no row of the caller's frame
SelectsNoData(c) == RunData(frame, c.start_date, c.end_date) = <<>>

-----------------------------------------------------------------------------
(* C11: run_backtest fails with an error when the date-filtered dataset is   *)
(* empty, before any state is touched.  The step run_backtest takes on a     *)
(* frame whose date filter leaves no row ends the call with ValueError, and  *)
(* the strategy's cash, positions, trade log and snapshot history and the    *)
(* engine's stored results are the same after it as before it.               *)
C11_EmptyDataFailsUntouched ==
    [][ (pc = "start" /\ SelectsNoData(call)) =>
          /\ pc' = "finished"
          /\ outcome' = "ValueError"
          /\ UNCHANGED <<cash, positions, trades, portfolio_history, results>> ]_vars

\* a run that traded, then a run_backtest whose start date lies after every
\* bar of a frame that has rows: it came back with ValueError, and the trade
\* log and cash of the first run are still there
C11_Witness ==
    /\ pc = "idle"
    /\ Len(history) = 2
    /\ frame # <<>>
    /\ history[1].trades # <<>>
    /\ history[1].outcome = "returned"
    /\ history[2].call.op = "run_backtest"
    /\ history[2].call.start_date # 0
    /\ history[2].outcome = "ValueError"
    /\ history[2].trades = history[1].trades
    /\ history[2].cash = history[1].cash
    /\ history[2].results = history[1].results

-----------------------------------------------------------------------------
(* C12: initialization errors are never swallowed.  Whenever a public run    *)
(* operation (run_backtest, run_multiple_backtests with a non-empty list)    *)
(* was called on an empty dataset or with a date range that selects no row,  *)
(* the call came back to its caller with an error, not with a value.         *)
C12_InitErrorsSurface ==
    (pc = "idle" /\ history # <<>>
       /\ LastSeen.call.op \in {"run_backtest", "run_multiple_backtests"}
       /\ SelectsNoData(LastSeen.call))
    => LastSeen.outcome = "ValueError"

-----------------------------------------------------------------------------
(* C13: state reset per run.  At the start of the replay loop of every       *)
(* run_backtest call, whatever runs, resets or direct execute_signal calls   *)
(* happened before on the engine and the strategy object, cash equals the    *)
(* engine's initial_capital and the open positions, the trade log and the    *)
(* snapshot history are empty.                                               *)
C13_StateResetPerRun ==
    (pc = "loop" /\ last.op = "initialize") =>
        /\ cash = engine.initial_capital
        /\ positions = EmptyMap
        /\ trades = <<>>
        /\ portfolio_history = <<>>

\* the replay loop of a run is about to start on a strategy object that an
\* earlier run or a direct execute_signal call has left with trades, an open
\* position and snapshots, without a reset in between
C13_Witness ==
    /\ pc = "loop"
    /\ last.op = "initialize"
    /\ history # <<>>
    /\ LastSeen.call.op \in {"run_backtest", "execute_signal"}
    /\ LastSeen.trades # <<>>
    /\ LastSeen.positions # EmptyMap
    /\ LastSeen.portfolio_history # <<>>
    /\ LastSeen.cash # engine.initial_capital
    /\ trades = <<>>

-----------------------------------------------------------------------------
(* C14: idempotence of reset.  Two run_backtest calls with the same          *)
(* arguments on the same engine, strategy object and frame end the same way  *)
(* and yield identical snapshot sequences, identical trade logs and equal    *)
(* results, whether reset(), nothing, or a direct execute_signal call lies   *)
(* between them; the result handed back by the first is what the caller      *)
(* still holds after the second.                                             *)
C14_ResetIdempotent ==
    \A j \in 1..Len(history) : \A k \in 1..Len(history) :
        (j < k /\ history[j].call.op = "run_backtest"
           /\ history[k].call = history[j].call)
        => /\ history[k].outcome = history[j].outcome
           /\ history[k].portfolio_history = history[j].portfolio_history
           /\ history[k].trades = history[j].trades
           /\ history[k].value = history[j].value

\* run, reset(), run: both runs traded and returned
C14_Witness ==
    /\ pc = "idle"
    /\ Len(history) = 3
    /\ history[2].call.op = "reset"
    /\ history[2].trades = <<>>
    /\ history[1].call.op = "run_backtest"
    /\ history[3].call = history[1].call
    /\ history[1].outcome = "returned"
    /\ Len(history[1].trades) >= 2
    /\ Len(history[3].portfolio_history) >= 2
    /\ history[3].trades = history[1].trades

-----------------------------------------------------------------------------
(* C15: the end-to-end scenario.  Five bars of X with closes 100, 105, 95,   *)
(* 90, 120; a strategy that buys 10 shares at bar 2 and sells 10 at bar 5;   *)
(* an engine constructed with commission = 0, slippage = 0 and               *)
(* initial_capital = 10,000.  The run ends with cash 10,150, total_return    *)
(* 1.5% and exactly one completed round trip, of P&L 150.                    *)
C15_EndToEndScenario ==
    (/\ pc = "idle"
     /\ Len(history) = 1
     /\ engine_args = [initial_capital |-> 10000 * SCALE, commission |-> 0,
                       slippage |-> 0]
     /\ frame = FiveBars
     /\ strategy = ScenarioStrategy(2, 5, 10))
    => /\ LastSeen.outcome = "returned"
       /\ cash = 10150 * SCALE
       /\ LastSeen.value.total_return = Rat(15, 1000)
       /\ LastSeen.value.trade_statistics.completed_trades = 1
       /\ LastSeen.value.trade_statistics.total_pnl = 150 * SCALE

-----------------------------------------------------------------------------
(* Vocabulary of C21: the exit check has been applied to the drawn row *)

ExitChecked == calc.kind = "exit" /\ "check_sell_conditions" \in DOMAIN calc.out
SellFired == calc.out["check_sell_conditions"].sell_signal

\* the return of the row's close on the entry price of the open position, in
\* hundredths of the entry price (an exact comparison, no rounding)
ReturnAtLeast(pct) ==
    (calc.input.bar.close - calc.input.positions[calc.input.symbol]) * 100
        >= pct * calc.input.positions[calc.input.symbol]
ReturnAtMost(pct) ==
    (calc.input.bar.close - calc.input.positions[calc.input.symbol]) * 100
        <= pct * calc.input.positions[calc.input.symbol]

(* C21: the exit rule of the reference strategy.  With an open position for  *)
(* the symbol a Sell fires whenever the return on the entry price is at      *)
(* least +15% or at most -8% (both boundaries included), or RSI is           *)
(* overbought and MACD has a bearish crossover; with no open position for    *)
(* the symbol no Sell is produced.                                           *)
C21_SellAtBoundaries ==
    ExitChecked =>
        IF calc.input.symbol \in DOMAIN calc.input.positions
        THEN ( \/ ReturnAtLeast(15)
               \/ ReturnAtMost(0 - 8)
               \/ (calc.input.bar.rsi > 70 /\ calc.input.bar.macd_bearish) )
             => SellFired
        ELSE ~SellFired

-----------------------------------------------------------------------------
(* C22: a Signal is never mutated after the strategy creates it.  While the  *)
(* loop over the returned list holds a Signal object (slippage applied and   *)
(* the signal executed), the object's timestamp, symbol, type and price are  *)
(* the values the strategy gave it.                                          *)
C22_SignalNeverMutated ==
    (pc = "signals" /\ last.op = "signal") => signal = last.signal

-----------------------------------------------------------------------------
(* Vocabulary of C23 *)

\* the sum of f[s] over the keys s in S
RECURSIVE SumOver(_, _)
SumOver(f, S) ==
    IF S = {} THEN 0
    ELSE LET s == CHOOSE x \in S : TRUE IN f[s] + SumOver(f, S \ {s})

\* the latest step recorded the snapshot of a timestamp
Recorded == pc = "loop" /\ last.op = "record"
LastSnapshot == portfolio_history[Len(portfolio_history)]

\* the closes of the bars of symbol s at timestamp t
ClosesAt(s, t) ==
    { data[k].close : k \in { j \in 1..Len(data) :
                                data[j].timestamp = t /\ data[j].symbol = s } }

\* the current price of an open position at timestamp t: the close of its
\* symbol's bar at t, or the price the position carries when there is no bar
MarkedPrice(s, t) ==
    IF ClosesAt(s, t) # {} THEN CHOOSE c \in ClosesAt(s, t) : TRUE
    ELSE positions[s].current_price

(* C23: every recorded snapshot is the mark-to-market value of the ledger.   *)
(* The snapshot recorded for timestamp t has total_value = cash + the sum    *)
(* over the open positions of quantity x current price, with the cash and    *)
(* the quantities the ledger has after all of t's signals, the close at t as *)
(* the current price of a symbol that has a bar at t, positions_value =      *)
(* total_value - cash, and num_positions the number of open positions.       *)
C23_SnapshotIsMarkToMarket ==
    Recorded =>
        LET snap == LastSnapshot
            t    == dates[i - 1]
        IN /\ snap.timestamp = t
           /\ snap.cash = cash
           /\ snap.total_value =
                cash + SumOver([s \in DOMAIN positions |->
                                   positions[s].quantity * MarkedPrice(s, t)],
                               DOMAIN positions)
           /\ snap.positions_value = snap.total_value - cash
           /\ snap.num_positions = Cardinality(DOMAIN positions)

\* a snapshot with an open position that was bought at a price other than
\* the close it is valued at
C23_Witness ==
    /\ Recorded
    /\ \E s \in DOMAIN positions :
          /\ ClosesAt(s, dates[i - 1]) # {}
          /\ positions[s].entry_price # Rat(MarkedPrice(s, dates[i - 1]), 1)
          /\ LastSnapshot.positions_value =
                positions[s].quantity * MarkedPrice(s, dates[i - 1])
    /\ LastSnapshot.positions_value > 0
    /\ trades # <<>>

-----------------------------------------------------------------------------
(* Vocabulary of C24 *)

DrawdownFns == {"engine_max_drawdown", "calculate_max_drawdown"}

\* the largest of the first k values
PeakUpTo(values, k) ==
    CHOOSE p \in { values[j] : j \in 1..k } : \A j \in 1..k : values[j] <= p

NonDecreasing(values) ==
    \A k \in 1..Len(values) : \A j \in 1..k : values[j] <= values[k]

\* r is the least of the fractions (value - running peak) / running peak
LeastDrawdown(r, values) ==
    /\ \E k \in 1..Len(values) :
          r.num * PeakUpTo(values, k) = (values[k] - PeakUpTo(values, k)) * r.den
    /\ \A k \in 1..Len(values) :
          r.num * PeakUpTo(values, k) <= (values[k] - PeakUpTo(values, k)) * r.den

(* C24: maximum drawdown.  For every series of positive values, the engine's *)
(* and the analyzer's maximum drawdown is the minimum over the series of     *)
(* (value - running peak) / running peak; it is at most 0, and it is 0       *)
(* exactly when the series never decreases.                                  *)
C24_MaxDrawdown ==
    calc.kind = "values" =>
        \A fn \in DrawdownFns \cap DOMAIN calc.out :
            LET r == calc.out[fn] IN
            /\ r.den > 0
            /\ r.num <= 0
            /\ r.num = 0 <=> NonDecreasing(calc.input)
            /\ calc.input # <<>> => LeastDrawdown(r, calc.input)

\* both implementations applied to a series that rises to 120 and falls to
\* 90: a drawdown of one quarter
C24_Witness ==
    /\ calc.kind = "values"
    /\ calc.input = <<100, 120, 90>>
    /\ DrawdownFns \subseteq DOMAIN calc.out
    /\ \A fn \in DrawdownFns : calc.out[fn] = [num |-> 0 - 1, den |-> 4]

-----------------------------------------------------------------------------
(* Vocabulary of C25, C26 and C30: the reports on the drawn trade log *)

\* the reports that carry a profit factor, among those computed
ProfitFactorsReported ==
    { fn \in {"trade_statistics", "trade_metrics"} \cap DOMAIN calc.out :
        "profit_factor" \in DOMAIN (IF fn = "trade_statistics"
                                    THEN calc.out[fn].stats ELSE calc.out[fn]) }

ReportedProfitFactor(fn) ==
    IF fn = "trade_statistics" THEN calc.out[fn].stats.profit_factor
    ELSE calc.out[fn].profit_factor

\* the P&L column of the first-in-first-out round trips of the log
PnlOf(log) ==
    [k \in 1..Len(RoundTripPnl(log).pnl_trades) |-> RoundTripPnl(log).pnl_trades[k].pnl]

GrossProfit(pnl) ==
    SumOver([k \in 1..Len(pnl) |-> IF pnl[k] > 0 THEN pnl[k] ELSE 0], 1..Len(pnl))
GrossLoss(pnl) ==
    SumOver([k \in 1..Len(pnl) |-> IF pnl[k] < 0 THEN 0 - pnl[k] ELSE 0], 1..Len(pnl))

(* C25: profit factor.  In the engine's trade statistics and in the          *)
(* analyzer's trade metrics the profit factor is gross profit divided by     *)
(* gross loss over the round trips of the log, and it is +infinity whenever  *)
(* the log yields at least one round trip and none of them has negative P&L. *)
C25_ProfitFactor ==
    calc.kind = "trade_log" =>
        \A fn \in ProfitFactorsReported :
            LET pnl == PnlOf(calc.input)
                pf  == ReportedProfitFactor(fn)
            IN /\ pnl # <<>>
               /\ (\A k \in 1..Len(pnl) : pnl[k] >= 0) => pf.inf
               /\ (\E k \in 1..Len(pnl) : pnl[k] < 0) =>
                    /\ ~pf.inf
                    /\ pf.den > 0
                    /\ pf.num * GrossLoss(pnl) = GrossProfit(pnl) * pf.den

\* both reports on a log whose only round trip breaks even, and so has no
\* loss: buy 10 at 100, sell 10 at 100
C25_Witness ==
    /\ calc.kind = "trade_log"
    /\ calc.input = StampedLog(<< [action |-> "BUY", symbol |-> "X",
                                   quantity |-> 10, price |-> 100],
                                  [action |-> "SELL", symbol |-> "X",
                                   quantity |-> 10, price |-> 100] >>)
    /\ ProfitFactorsReported = {"trade_statistics", "trade_metrics"}
    /\ \A fn \in ProfitFactorsReported : ReportedProfitFactor(fn).inf

-----------------------------------------------------------------------------
\* the symbol, P&L and holding period of each record of a list
Trips(records) ==
    [k \in 1..Len(records) |->
        [symbol |-> records[k].symbol, pnl |-> records[k].pnl,
         holding_period |-> records[k].holding_period]]

(* C26: the two first-in-first-out implementations are equivalent.  For      *)
(* every trade log, the engine's _calculate_trade_statistics and the         *)
(* analyzer's _calculate_round_trip_pnl match the same sequence of round     *)
(* trips (symbol, P&L, holding period) and leave the same lots open, and the *)
(* engine's statistics and the analyzer's trade metrics report the same      *)
(* completed-trade count, winning and losing counts and total P&L.           *)
C26_FifoImplementationsAgree ==
    calc.kind = "trade_log" =>
        /\ {"round_trip_pnl", "trade_statistics"} \subseteq DOMAIN calc.out =>
              /\ Trips(calc.out["trade_statistics"].completed_trades)
                    = Trips(calc.out["round_trip_pnl"].pnl_trades)
              /\ calc.input # <<>> =>
                    calc.out["trade_statistics"].positions
                        = calc.out["round_trip_pnl"].positions
        /\ {"trade_metrics", "trade_statistics"} \subseteq DOMAIN calc.out =>
              LET stats   == calc.out["trade_statistics"].stats
                  metrics == calc.out["trade_metrics"]
              IN /\ "completed_trades" \in DOMAIN stats
                        <=> "round_trip_trades" \in DOMAIN metrics
                 /\ "completed_trades" \in DOMAIN stats =>
                        /\ stats.completed_trades = metrics.round_trip_trades
                        /\ stats.winning_trades = metrics.winning_trades
                        /\ stats.losing_trades = metrics.losing_trades
                        /\ stats.total_pnl = metrics.total_pnl

\* the three functions applied to the log whose sell takes one lot whole and
\* a part of the next
C26_Witness ==
    /\ calc.kind = "trade_log"
    /\ calc.input = ExampleLog
    /\ {"round_trip_pnl", "trade_statistics", "trade_metrics"} \subseteq DOMAIN calc.out
    /\ Len(calc.out["trade_statistics"].completed_trades) = 2
    /\ calc.out["trade_metrics"].total_pnl = 250

-----------------------------------------------------------------------------
(* C30: the streak counters are consistent with the win and loss counts of   *)
(* the same report.  In every trade-metrics report that carries them,        *)
(* max_consecutive_wins <= winning_trades and max_consecutive_losses <=      *)
(* losing_trades, also when a round trip has a P&L of exactly 0.             *)
C30_StreaksWithinCounts ==
    (/\ calc.kind = "trade_log"
     /\ "trade_metrics" \in DOMAIN calc.out
     /\ "max_consecutive_wins" \in DOMAIN calc.out["trade_metrics"]) =>
        /\ calc.out["trade_metrics"].max_consecutive_wins
              <= calc.out["trade_metrics"].winning_trades
        /\ calc.out["trade_metrics"].max_consecutive_losses
              <= calc.out["trade_metrics"].losing_trades

-----------------------------------------------------------------------------
(* Vocabulary of C27 *)

\* the records of a list that are about symbol s
Of(records, s) == SelectSeq(records, LAMBDA r : r.symbol = s)

\* the quantity the ledger holds of symbol s
Held(s) == IF s \in DOMAIN positions THEN positions[s].quantity ELSE 0

(* C27: the first-in-first-out reconstruction agrees with the ledger.  For   *)
(* the trade log the ledger has written since initialize, the matching       *)
(* matches every sell in full (the quantity matched for a symbol is the      *)
(* quantity sold of it), every lot left open has a quantity of at least 1,   *)
(* and for each symbol the quantities of the lots left open add up to the    *)
(* quantity of the ledger's open position (0 when there is none).            *)
C27_FifoAgreesWithLedger ==
    LET matching == RoundTripPnl(trades) IN
    \A s \in Symbols :
        /\ RecordsQuantity(Of(matching.pnl_trades, s))
              = RecordsQuantity(SelectSeq(trades,
                    LAMBDA t : t.symbol = s /\ t.action = "SELL"))
        /\ \A k \in 1..Len(LotsOf(matching.positions, s)) :
              LotsOf(matching.positions, s)[k].quantity >= 1
        /\ RecordsQuantity(LotsOf(matching.positions, s)) = Held(s)

\* the ledger bought 1 and 2 of X and sold 2: the sale took the first lot
\* whole and one share of the second, one share is left open and held
C27_Witness ==
    /\ Len(trades) = 3
    /\ trades[1].action = "BUY" /\ trades[1].quantity = 1
    /\ trades[2].action = "BUY" /\ trades[2].quantity = 2
    /\ trades[3].action = "SELL" /\ trades[3].quantity = 2
    /\ Len(RoundTripPnl(trades).pnl_trades) = 2
    /\ Len(RoundTripPnl(trades).positions["X"]) = 1
    /\ Held("X") = 1

-----------------------------------------------------------------------------
(* C28: cash is never negative in any reachable ledger state.  Starting from *)
(* initialize with a capital >= 0, no sequence of executed buys and sells    *)
(* with a commission >= 0 and prices > 0 drives cash below 0, a sell whose   *)
(* commission exceeds quantity x price included.                             *)
C28_CashNeverNegative == cash >= 0

-----------------------------------------------------------------------------
(* C29: run_multiple_backtests keeps every strategy's outcome.  When it has  *)
(* returned for a list of distinct strategy objects, the returned mapping    *)
(* has one entry per strategy of the list, each entry being the result of    *)
(* that strategy's own run, and so has the engine's stored mapping for the   *)
(* runs that returned a result; two strategies of the list may have the same *)
(* name.                                                                     *)
C29_KeepsEveryOutcome ==
    (last.op = "multiple_return" /\ call.strategies # <<>>) =>
        LET returned == history[Len(history)].value
        IN /\ Cardinality(DOMAIN returned) = Len(call.strategies)
           /\ \A k \in 1..Len(call.strategies) :
                /\ call.strategies[k].name \in DOMAIN returned
                /\ returned[call.strategies[k].name] = multi.runs[k]
                /\ multi.runs[k] # None =>
                     /\ call.strategies[k].name \in DOMAIN results
                     /\ results[call.strategies[k].name] = multi.runs[k]
====
